---- MODULE Spec2Model ----
(***************************************************************************)
(* Token scorers and their fusion for beam search:                        *)
(* speechbrain/decoders/scorer.py (ScorerBuilder and the six scorers).    *)
(*                                                                         *)
(* Numbers.  Real-valued scores are fixed point: a raw score s is the     *)
(* integer s * ONE, a weight w is the integer w * WeightDen, and a        *)
(* log-probability p is the integer p * ONE * WeightDen, so that          *)
(* "log_probs += score * weight" is exact integer arithmetic.             *)
(* Rows (batch_size x beam_size), vocabulary ids and list positions are   *)
(* numbered from 0 as in the source.                                       *)
(***************************************************************************)
EXTENDS Integers, Sequences, FiniteSets, TLC

\* ---------------------------------------------------------------- bounds
BatchSize == 2        \* utterances decoded together: x.size(0)
MaxBeam == 2          \* beam sizes 1..MaxBeam
VocabSize == 3        \* vocabulary ids 0..VocabSize-1
SrcLen == 2           \* encoder positions attended to
MaxSteps == 2         \* decoding steps of one session
MaxSessions == 2      \* reset_scorer_mem calls on one builder
WeightDen == 2        \* weights are multiples of 1/WeightDen
MaxWeightKeys == 2    \* keys of a weights argument (construction runs)
MaxFull == 2          \* length of a full_scorers argument (construction runs)
MaxPartial == 1       \* length of a partial_scorers argument (construction runs)
MaxFiles == 2         \* number of .stm files one prepare_stm call finds
AddrBatch == 2        \* batch size of the permute_mem runs
AddrBeam == 3         \* beam size of the permute_mem runs
AddrVocab == 5        \* vocabulary size of the permute_mem runs

\* ------------------------------------------------------ program constants
ONE == 1000           \* the fixed-point image of 1.0
minus_inf == -1000000 \* KenLMScorer.minus_inf (-1e20), scaled to fit machine integers
threshold == 500      \* CoverageScorer threshold=0.5, in units of 1/ONE
LN10 == 2303          \* 1.0 / np.log10(np.e) = 2.302585..., in units of 1/ONE
BosIndex == 1         \* bos_index of the searcher: the first input token of every row

Vocab == 0 .. (VocabSize - 1)
Source == 0 .. (SrcLen - 1)
Batch == 0 .. (BatchSize - 1)

\* ------------------------------------------------------------ small helpers
Max(a, b) == IF a >= b THEN a ELSE b

RECURSIVE SumOver(_, _)
\* The sum of f[x] over the finite set S.
SumOver(f, S) ==
    IF S = {} THEN 0
    ELSE LET x == CHOOSE y \in S : TRUE IN f[x] + SumOver(f, S \ {x})

Range(s) == {s[i] : i \in 1 .. Len(s)}

\* Sequences over S of length 0..n.
SeqsUpTo(S, n) == UNION {[1 .. m -> S] : m \in 0 .. n}

\* ------------------------------------------------------------ python dicts
\* A dict is the sequence of its <<key, value>> items in insertion order.
DictKeys(d) == {d[i][1] : i \in 1 .. Len(d)}

DictGet(d, k) == (CHOOSE i \in 1 .. Len(d) : d[i][1] = k)

DictVal(d, k) == d[DictGet(d, k)][2]

\* d[k] = v: a new key is appended, an old key keeps its place and takes the value.
DictSet(d, k, v) ==
    IF k \in DictKeys(d)
    THEN [i \in 1 .. Len(d) |-> IF d[i][1] = k THEN <<k, v>> ELSE d[i]]
    ELSE Append(d, <<k, v>>)

RECURSIVE DictZipFrom(_, _, _, _)
DictZipFrom(d, ks, vs, i) ==
    IF i > Len(ks) \/ i > Len(vs) THEN d
    ELSE DictZipFrom(DictSet(d, ks[i], vs[i]), ks, vs, i + 1)

\* dict(zip(ks, vs))
DictZip(ks, vs) == DictZipFrom(<<>>, ks, vs, 1)

RECURSIVE DictMergeFrom(_, _, _)
DictMergeFrom(d, e, i) ==
    IF i > Len(e) THEN d ELSE DictMergeFrom(DictSet(d, e[i][1], e[i][2]), e, i + 1)

\* {**d, **e}
DictMerge(d, e) == DictMergeFrom(d, e, 1)

\* ------------------------------------------------------------ scorer classes
\* A scorer instance is [cls |-> its class name, id |-> its identity].
ScorerClasses ==
    {"CTCScorer", "RNNLMScorer", "TransformerLMScorer", "KenLMScorer",
     "CoverageScorer", "LengthScorer"}

\* cls.lower().split("scorer")[0] for the class names of the module.
CanonicalName(cls) ==
    CASE cls = "CTCScorer" -> "ctc"
      [] cls = "RNNLMScorer" -> "rnnlm"
      [] cls = "TransformerLMScorer" -> "transformerlm"
      [] cls = "KenLMScorer" -> "kenlm"
      [] cls = "CoverageScorer" -> "coverage"
      [] cls = "LengthScorer" -> "length"

\* The names of the module's globals that end with "Scorer", canonicalised.
all_scorer_names == {CanonicalName(c) : c \in ScorerClasses}

ScorerNamesOf(impls) == [i \in 1 .. Len(impls) |-> CanonicalName(impls[i].cls)]

\* ------------------------------------------------------------------ state
VARIABLES
    phase,              \* "unbuilt" | "failed" | "built" | "reset" | "scored" | "permuted" | "raised"
    error,              \* the exception of the last failed call, or "none"
    config,             \* the arguments of the last ScorerBuilder(...) call
    weights,            \* self.weights: name -> weight * WeightDen
    full_scorers,       \* self.full_scorers: dict name -> instance
    partial_scorers,    \* self.partial_scorers: dict name -> instance
    scorer_beam_scale,  \* self.scorer_beam_scale: <<numerator, denominator>>
    fields,             \* the scorer instances' attributes: id -> [time_step, batch_index, ctc_score]
    sessions,           \* reset_scorer_mem calls made on the builder
    resets,             \* the instances whose reset_mem the last of them called, in order
    enc,                \* x: the encoder output of the utterance batch being decoded
    beam_size,          \* the searcher's beam size for this batch
    step,               \* ScorerBuilder.score calls since the last reset
    hyps,               \* the searcher's hypotheses: row -> its token ids, bos first
    memory,             \* the searcher's scorer memory: name -> memory
    lp_in,              \* the log_probs buffer handed to the last ScorerBuilder.score
    passed,             \* the log_probs tensor and memory dict handed to it, as the call left them
    log_probs,          \* that buffer after the call
    candidates,         \* the candidates the last ScorerBuilder.score selected
    calls,              \* the impl.score calls it made, in order
    pre_memory,         \* the memory handed to the last permute_scorer_mem
    index,              \* its index argument
    sel,                \* its candidates argument
    permutes,           \* the impl.permute_mem calls it made, in order
    runs,               \* the searchers that share the builder's instances: name -> its state
    made,               \* the last KenLMScorer(...) call: its arguments and what it gave
    multi_step,         \* whether the decoder hands over the attention of all steps (3-D)
    stm                 \* the running prepare_stm call: its arguments, locals and files written

builderVars == <<phase, error, config, weights, full_scorers, partial_scorers, scorer_beam_scale>>
sessionVars == <<fields, sessions, resets, enc, beam_size, step, hyps, memory>>
scoreVars == <<lp_in, passed, log_probs, candidates, calls>>
permuteVars == <<pre_memory, index, sel, permutes>>

vars == <<builderVars, sessionVars, scoreVars, permuteVars, runs, made, multi_step, stm>>

\* None, and a tensor: every optional value is a record with a kind.
None == [kind |-> "None"]
Tensor(d, v) == [kind |-> "tensor", dim |-> d, val |-> v]

InstanceIds == 1 .. 6

\* Two beam searchers that were handed the same ScorerBuilder.
Searchers == {"A", "B"}

\* The attributes of a scorer instance after its __init__: CoverageScorer sets
\* time_step = 0; ctc_score and batch_index are not set before reset_mem (-1);
\* vocab_size is the constructor's argument.
NewFields == [time_step |-> 0, batch_index |-> -1, ctc_score |-> -1, vocab_size |-> VocabSize]

NoWeights == [k \in {} |-> 0]
\* A searcher that has not started decoding; alone is the same searcher with
\* the same inputs and beam selections on instances nobody else calls.
IdleRun ==
    [pc |-> "idle", x |-> 0, beam |-> 1, step |-> 0, hyps |-> <<>>, memory |-> NoWeights,
     calls |-> <<>>, foreign |-> FALSE, interfered |-> FALSE, dirty |-> FALSE,
     alone |-> [pc |-> "idle", fields |-> [i \in InstanceIds |-> NewFields],
                memory |-> NoWeights, calls |-> <<>>]]

NoConfig == [weights |-> NoWeights, full_scorers |-> <<>>, partial_scorers |-> <<>>,
             scorer_beam_scale |-> <<3, 2>>]

Init ==
    /\ phase = "unbuilt"
    /\ error = "none"
    /\ config = NoConfig
    /\ weights = NoWeights
    /\ full_scorers = <<>>
    /\ partial_scorers = <<>>
    /\ scorer_beam_scale = <<3, 2>>
    /\ fields = [i \in InstanceIds |-> NewFields]
    /\ sessions = 0
    /\ resets = <<>>
    /\ enc = 0
    /\ beam_size = 1
    /\ step = 0
    /\ hyps = <<>>
    /\ memory = NoWeights
    /\ lp_in = None
    /\ passed = None
    /\ log_probs = None
    /\ candidates = None
    /\ calls = <<>>
    /\ pre_memory = NoWeights
    /\ index = None
    /\ sel = None
    /\ permutes = <<>>
    /\ runs = [s \in Searchers |-> IdleRun]
    /\ made = None
    /\ multi_step = FALSE
    /\ stm = [pc |-> "idle", conf |-> None, stm_paths |-> <<>>, i |-> 0, split_info |-> <<>>,
              train_transcript_words |-> <<>>, csv |-> <<>>]

\* ------------------------------------------------- ScorerBuilder.__init__
\* {**weights, **init_weights}: the defaults written over the caller's values.
MergedWeights_defaults_last(w) ==
    [k \in all_scorer_names \cup DOMAIN w |-> IF k \in all_scorer_names THEN 0 ELSE w[k]]

\* self.weights = {**init_weights, **weights}
MergedWeights(w) ==
    [k \in all_scorer_names \cup DOMAIN w |-> IF k \in DOMAIN w THEN w[k] ELSE 0]

\* _validate_scorer without its test on the number of keys.
ValidateScorer_nokeys(ws, fulls, scorer_names) ==
    IF ~(0 <= ws["ctc"] /\ ws["ctc"] <= WeightDen)
    THEN "ValueError: ctc_weight range"
    ELSE IF ws["ctc"] = WeightDen /\ "ctc" \notin DictKeys(fulls)
    THEN "ValueError: ctc not a full scorer"
    ELSE IF ws["ctc"] = WeightDen /\ ws["coverage"] > 0
    THEN "ValueError: coverage with pure ctc"
    ELSE "none"

\* _validate_scorer without its range test on the ctc weight.
ValidateScorer_norange(ws, fulls, scorer_names) ==
    IF Cardinality(DOMAIN ws) > Cardinality(scorer_names)
    THEN "ValueError: keys of weights"
    ELSE IF ws["ctc"] = WeightDen /\ "ctc" \notin DictKeys(fulls)
    THEN "ValueError: ctc not a full scorer"
    ELSE IF ws["ctc"] = WeightDen /\ ws["coverage"] > 0
    THEN "ValueError: coverage with pure ctc"
    ELSE "none"

\* _validate_scorer without its test that a pure-ctc builder has ctc as a full scorer.
ValidateScorer_nofull(ws, fulls, scorer_names) ==
    IF Cardinality(DOMAIN ws) > Cardinality(scorer_names)
    THEN "ValueError: keys of weights"
    ELSE IF ~(0 <= ws["ctc"] /\ ws["ctc"] <= WeightDen)
    THEN "ValueError: ctc_weight range"
    ELSE IF ws["ctc"] = WeightDen /\ ws["coverage"] > 0
    THEN "ValueError: coverage with pure ctc"
    ELSE "none"

\* ScorerBuilder._validate_scorer: the exception it raises, or "none".
ValidateScorer(ws, fulls, scorer_names) ==
    IF Cardinality(DOMAIN ws) > Cardinality(scorer_names)
    THEN "ValueError: keys of weights"
    ELSE IF ~(0 <= ws["ctc"] /\ ws["ctc"] <= WeightDen)
    THEN "ValueError: ctc_weight range"
    ELSE IF ws["ctc"] = WeightDen /\ "ctc" \notin DictKeys(fulls)
    THEN "ValueError: ctc not a full scorer"
    ELSE IF ws["ctc"] = WeightDen /\ ws["coverage"] > 0
    THEN "ValueError: coverage with pure ctc"
    ELSE "none"

\* The exception ScorerBuilder(cfg) raises, or "none".
ConstructError(cfg) ==
    IF Cardinality(DOMAIN cfg.weights) # Len(cfg.full_scorers) + Len(cfg.partial_scorers)
    THEN "AssertionError: weights and scorers are not matched"
    ELSE ValidateScorer(MergedWeights(cfg.weights),
                        DictZip(ScorerNamesOf(cfg.full_scorers), cfg.full_scorers),
                        all_scorer_names)

Construct(cfg) ==
    /\ phase = "unbuilt"
    /\ config' = cfg
    /\ error' = ConstructError(cfg)
    /\ IF ConstructError(cfg) = "none"
       THEN /\ phase' = "built"
            /\ weights' = MergedWeights(cfg.weights)
            /\ full_scorers' = DictZip(ScorerNamesOf(cfg.full_scorers), cfg.full_scorers)
            /\ partial_scorers' = DictZip(ScorerNamesOf(cfg.partial_scorers), cfg.partial_scorers)
            /\ scorer_beam_scale' = cfg.scorer_beam_scale
       ELSE /\ phase' = "failed"
            /\ UNCHANGED <<weights, full_scorers, partial_scorers, scorer_beam_scale>>
    /\ UNCHANGED <<sessionVars, scoreVars, permuteVars, runs, made, stm>>

\* The caller drops the builder (or the failed attempt) and starts over.
Discard ==
    /\ phase \in {"built", "failed"}
    /\ phase' = "unbuilt"
    /\ error' = "none"
    /\ config' = NoConfig
    /\ weights' = NoWeights
    /\ full_scorers' = <<>>
    /\ partial_scorers' = <<>>
    /\ scorer_beam_scale' = <<3, 2>>
    /\ UNCHANGED <<sessionVars, scoreVars, permuteVars, runs, made, multi_step, stm>>

\* ------------------------------------------------------------ collaborators
\* The neural models and the n-gram model are outside the scorers: each is a
\* fixed function of its inputs, chosen so that rows and tokens differ.
Rows(n_bh) == 0 .. (n_bh - 1)

\* The encoder outputs x an utterance batch may have.
EncInputs == {0, 1}

\* One more encoder output, of a batch of a single utterance.
SingleUtterance == Cardinality(EncInputs)

\* x.size(0)
BatchOf(x) == IF x = SingleUtterance THEN 1 ELSE BatchSize

Last(h) == h[Len(h)]

\* The decoder's log-probabilities for row i, a hypothesis h of utterance batch
\* x, in units of 1/(ONE * WeightDen); an odd x ties the best tokens of row 0.
DecoderLogProbs(x, h, i) ==
    [t \in Vocab |->
        IF x % 2 = 1 /\ i = 0
        THEN -((ONE * WeightDen) \div 4) * (((t + Last(h)) % VocabSize) \div 2)
        ELSE -((ONE * WeightDen) \div 4) * ((t + Last(h) + Len(h)) % VocabSize)]

\* The attention of the current step: uniform right after bos, else one position.
AttnOf(x, h) ==
    [p \in Source |->
        IF Last(h) = BosIndex THEN ONE \div SrcLen
        ELSE IF p = (Last(h) + x) % SrcLen THEN ONE ELSE 0]

\* The attention the decoder hands to the scorers for one row: the current step's
\* vector over the source (2-D over the rows), or, from a transformer decoder, the
\* vectors of every step so far, numbered from 1 (3-D over the rows).
AttentionOf(x, h, all_steps) ==
    IF all_steps THEN [n \in 1 .. Len(h) |-> AttnOf(x, SubSeq(h, 1, n))]
    ELSE AttnOf(x, h)

\* len(attn.size()): source positions count from 0, the steps of a 3-D attention from 1.
AttnDims(attn) ==
    IF \A i \in DOMAIN attn : 0 \in DOMAIN attn[i] THEN 2 ELSE 3

\* log-softmax of the language model salt over a token history, in units of 1/ONE.
LMLogProb(salt, hist, t) ==
    -(ONE \div 2) * (1 + ((salt + Len(hist) + Last(hist) + t) % VocabSize))

\* kenlm: State() is the empty context; BaseScore(parent, char, out) returns a
\* log10 score and writes the successor context to out.
KenLMNewState == <<>>
KenLMBaseScore(parent_state, char) == -(1 + ((Len(parent_state) + 2 * char) % VocabSize))
KenLMOutState(parent_state, char) == Append(parent_state, char)

\* What np.zeros(..., dtype=object) holds where no state was written: the integer 0.
ZeroObj == <<-1>>

\* token_list of the KenLMScorer: vocabulary id t is the word VocabSize + t.
token_list == [t \in Vocab |-> VocabSize + t]

\* ------------------------------------------------------------- CTCScorer
\* CTCPrefixScore (speechbrain.decoders.ctc): forward_step scores the
\* extension of every row's prefix by each candidate token (all tokens when
\* candidates is None), the sentinel elsewhere, and keeps one state per
\* (row, token); permute_mem keeps the state each selected candidate points to.
CTCLogProb(x, prefix, t) == -(ONE \div 2) * (1 + ((x + Len(prefix) + t) % VocabSize))

CTCPrefixScore_forward_step(ctc_score, inp_tokens, mem, cands, attn, n_bh) ==
    LET prefix(i) == IF mem.kind = "None" THEN <<>> ELSE mem.state[i]
        scored(i, t) == cands.kind = "None" \/ t \in cands.val[i]
    IN  [score |-> [i \in Rows(n_bh) |-> [t \in Vocab |->
                        IF scored(i, t) THEN CTCLogProb(ctc_score, prefix(i), t)
                        ELSE minus_inf]],
         memory |-> [kind |-> "table",
                     state |-> [i \in Rows(n_bh) |-> [t \in Vocab |->
                        IF scored(i, t) THEN Append(prefix(i), t) ELSE ZeroObj]]]]

CTCPrefixScore_permute_mem(mem, idx) ==
    IF mem.kind # "table" \/ idx.kind # "tensor" \/ idx.dim # 2
    THEN [raised |-> TRUE, memory |-> mem]
    ELSE LET beam == Cardinality(DOMAIN idx.val[0])
         IN  [raised |-> FALSE,
              memory |-> [kind |-> "rows",
                          state |-> [i \in Rows(Cardinality(DOMAIN idx.val) * beam) |->
                              LET h == idx.val[i \div beam][i % beam] + (i \div beam) * beam * VocabSize
                              IN  mem.state[h \div VocabSize][h % VocabSize]]]]

CTCScorer_score(self, inp_tokens, mem, cands, attn, n_bh) ==
    LET r == CTCPrefixScore_forward_step(self.ctc_score, inp_tokens, mem, cands, attn, n_bh)
    IN  [score |-> r.score, memory |-> r.memory, fields |-> self]

CTCScorer_permute_mem(self, mem, idx) == CTCPrefixScore_permute_mem(mem, idx)

\* self.ctc_score = CTCPrefixScore(x, ...); return None
CTCScorer_reset_mem(self, x) ==
    [memory |-> None, fields |-> [self EXCEPT !.ctc_score = x]]

\* -------------------------------------------------- torch.index_select
\* A scatter in place of the gather: row i of the input is written to row
\* idx[i] of the output, rows no index names keep what the input had there.
IndexSelect_scatter(mem, idx) ==
    IF mem.kind # "rows" \/ idx.kind # "tensor" \/ idx.dim # 1
    THEN [raised |-> TRUE, memory |-> mem]
    ELSE IF \E i \in DOMAIN idx.val : idx.val[i] \notin DOMAIN mem.state
    THEN [raised |-> TRUE, memory |-> mem]
    ELSE [raised |-> FALSE,
          memory |-> [kind |-> "rows",
                      state |-> [r \in DOMAIN idx.val |->
                          IF \E i \in DOMAIN idx.val : idx.val[i] = r
                          THEN mem.state[CHOOSE i \in DOMAIN idx.val :
                                   /\ idx.val[i] = r
                                   /\ \A j \in DOMAIN idx.val : idx.val[j] = r => j <= i]
                          ELSE mem.state[r]]]]

\* Rows of a row-indexed memory gathered by a 1-D index; a 2-D index, an index
\* out of range or a memory that is no tensor raises.
IndexSelect(mem, idx) ==
    IF mem.kind # "rows" \/ idx.kind # "tensor" \/ idx.dim # 1
    THEN [raised |-> TRUE, memory |-> mem]
    ELSE IF \E i \in DOMAIN idx.val : idx.val[i] \notin DOMAIN mem.state
    THEN [raised |-> TRUE, memory |-> mem]
    ELSE [raised |-> FALSE,
          memory |-> [kind |-> "rows", state |-> [i \in DOMAIN idx.val |-> mem.state[idx.val[i]]]]]

\* ------------------------------------------------------------ RNNLMScorer
\* The hidden state of a row stands for the tokens fed to the model so far.
\* RNNLMScorer.score counting its calls on the instance and scoring with the count.
RNNLMScorer_score_counting(self, inp_tokens, mem, cands, attn, n_bh) ==
    LET hx(i) == IF mem.kind = "None" THEN <<>> ELSE mem.state[i]
        hs == [i \in Rows(n_bh) |-> Append(hx(i), inp_tokens[i])]
    IN  [score |-> [i \in Rows(n_bh) |-> [t \in Vocab |->
                        LMLogProb(1 + self.time_step, hs[i], t)]],
         memory |-> [kind |-> "rows", state |-> hs],
         fields |-> [self EXCEPT !.time_step = self.time_step + 1]]

RNNLMScorer_score(self, inp_tokens, mem, cands, attn, n_bh) ==
    LET hx(i) == IF mem.kind = "None" THEN <<>> ELSE mem.state[i]
        hs == [i \in Rows(n_bh) |-> Append(hx(i), inp_tokens[i])]
    IN  [score |-> [i \in Rows(n_bh) |-> [t \in Vocab |-> LMLogProb(1, hs[i], t)]],
         memory |-> [kind |-> "rows", state |-> hs],
         fields |-> self]

RNNLMScorer_permute_mem(self, mem, idx) == IndexSelect(mem, idx)

RNNLMScorer_reset_mem(self, x) == [memory |-> None, fields |-> self]

\* ---------------------------------------------------- TransformerLMScorer
\* TransformerLMScorer.score feeding the model the newest token alone.
TransformerLMScorer_score_restart(self, inp_tokens, mem, cands, attn, n_bh) ==
    LET new == [i \in Rows(n_bh) |-> <<inp_tokens[i]>>]
    IN  [score |-> [i \in Rows(n_bh) |-> [t \in Vocab |-> LMLogProb(2, new[i], t)]],
         memory |-> [kind |-> "rows", state |-> new],
         fields |-> self]

\* memory = torch.cat([memory, inp_tokens.unsqueeze(1)], dim=-1), the empty
\* history when memory is None; the scores are those of the last position.
TransformerLMScorer_score(self, inp_tokens, mem, cands, attn, n_bh) ==
    LET old(i) == IF mem.kind = "None" THEN <<>> ELSE mem.state[i]
        new == [i \in Rows(n_bh) |-> Append(old(i), inp_tokens[i])]
    IN  [score |-> [i \in Rows(n_bh) |-> [t \in Vocab |-> LMLogProb(2, new[i], t)]],
         memory |-> [kind |-> "rows", state |-> new],
         fields |-> self]

TransformerLMScorer_permute_mem(self, mem, idx) == IndexSelect(mem, idx)

\* TransformerLMScorer.reset_mem keeping the encoder output on the instance.
TransformerLMScorer_reset_mem_stamp(self, x) ==
    [memory |-> None, fields |-> [self EXCEPT !.ctc_score = x]]

TransformerLMScorer_reset_mem(self, x) == [memory |-> None, fields |-> self]

\* ------------------------------------------------------------ KenLMScorer
\* KenLMScorer.score with its scores array starting from zeros, not from minus_inf.
KenLMScorer_score_zero_fill(self, inp_tokens, mem, cands, attn, n_bh) ==
    LET state == IF mem.kind = "None" THEN [i \in Rows(n_bh) |-> KenLMNewState] ELSE mem.state
        scoring_table == IF mem.kind = "None" THEN [i \in Rows(n_bh) |-> 1] ELSE mem.scoring_table
        cand(i) == IF cands.kind = "None" THEN Vocab ELSE cands.val[i]
        scored(i, t) == scoring_table[i] # -1 /\ t \in cand(i)
    IN  [score |-> [i \in Rows(n_bh) |-> [t \in Vocab |->
                        IF scored(i, t) THEN LN10 * KenLMBaseScore(state[i], token_list[t])
                        ELSE 0]],
         memory |-> [kind |-> "table",
                     state |-> [i \in Rows(n_bh) |-> [t \in Vocab |->
                        IF scored(i, t) THEN KenLMOutState(state[i], token_list[t])
                        ELSE ZeroObj]],
                     scoring_table |-> [i \in Rows(n_bh) |-> [t \in Vocab |->
                        IF scored(i, t) THEN 1 ELSE -1]]],
         fields |-> self]

\* KenLMScorer.score scoring every vocabulary id whatever the candidates are.
KenLMScorer_score_unmasked(self, inp_tokens, mem, cands, attn, n_bh) ==
    LET state == IF mem.kind = "None" THEN [i \in Rows(n_bh) |-> KenLMNewState] ELSE mem.state
        scoring_table == IF mem.kind = "None" THEN [i \in Rows(n_bh) |-> 1] ELSE mem.scoring_table
        scored(i, t) == scoring_table[i] # -1
    IN  [score |-> [i \in Rows(n_bh) |-> [t \in Vocab |->
                        IF scored(i, t) THEN LN10 * KenLMBaseScore(state[i], token_list[t])
                        ELSE minus_inf]],
         memory |-> [kind |-> "table",
                     state |-> [i \in Rows(n_bh) |-> [t \in Vocab |->
                        IF scored(i, t) THEN KenLMOutState(state[i], token_list[t])
                        ELSE ZeroObj]],
                     scoring_table |-> [i \in Rows(n_bh) |-> [t \in Vocab |->
                        IF scored(i, t) THEN 1 ELSE -1]]],
         fields |-> self]

\* KenLMScorer.score without the test of scoring_table[i]: every row is scored.
KenLMScorer_score_noskip(self, inp_tokens, mem, cands, attn, n_bh) ==
    LET state == IF mem.kind = "None" THEN [i \in Rows(n_bh) |-> KenLMNewState] ELSE mem.state
        cand(i) == IF cands.kind = "None" THEN Vocab ELSE cands.val[i]
        scored(i, t) == t \in cand(i)
    IN  [score |-> [i \in Rows(n_bh) |-> [t \in Vocab |->
                        IF scored(i, t) THEN LN10 * KenLMBaseScore(state[i], token_list[t])
                        ELSE minus_inf]],
         memory |-> [kind |-> "table",
                     state |-> [i \in Rows(n_bh) |-> [t \in Vocab |->
                        IF scored(i, t) THEN KenLMOutState(state[i], token_list[t])
                        ELSE ZeroObj]],
                     scoring_table |-> [i \in Rows(n_bh) |-> [t \in Vocab |->
                        IF scored(i, t) THEN 1 ELSE -1]]],
         fields |-> self]

\* KenLMScorer.score storing the parent state in place of the successor out_state.
KenLMScorer_score_parent_state(self, inp_tokens, mem, cands, attn, n_bh) ==
    LET state == IF mem.kind = "None" THEN [i \in Rows(n_bh) |-> KenLMNewState] ELSE mem.state
        scoring_table == IF mem.kind = "None" THEN [i \in Rows(n_bh) |-> 1] ELSE mem.scoring_table
        cand(i) == IF cands.kind = "None" THEN Vocab ELSE cands.val[i]
        scored(i, t) == scoring_table[i] # -1 /\ t \in cand(i)
    IN  [score |-> [i \in Rows(n_bh) |-> [t \in Vocab |->
                        IF scored(i, t) THEN LN10 * KenLMBaseScore(state[i], token_list[t])
                        ELSE minus_inf]],
         memory |-> [kind |-> "table",
                     state |-> [i \in Rows(n_bh) |-> [t \in Vocab |->
                        IF scored(i, t) THEN state[i] ELSE ZeroObj]],
                     scoring_table |-> [i \in Rows(n_bh) |-> [t \in Vocab |->
                        IF scored(i, t) THEN 1 ELSE -1]]],
         fields |-> self]

\* KenLMScorer.score starting a row of flag -1 again from a new state.
KenLMScorer_score_revive(self, inp_tokens, mem, cands, attn, n_bh) ==
    LET state == IF mem.kind = "None" THEN [i \in Rows(n_bh) |-> KenLMNewState]
                 ELSE [i \in Rows(n_bh) |->
                          IF mem.scoring_table[i] = -1 THEN KenLMNewState ELSE mem.state[i]]
        cand(i) == IF cands.kind = "None" THEN Vocab ELSE cands.val[i]
        scored(i, t) == t \in cand(i)
    IN  [score |-> [i \in Rows(n_bh) |-> [t \in Vocab |->
                        IF scored(i, t) THEN LN10 * KenLMBaseScore(state[i], token_list[t])
                        ELSE minus_inf]],
         memory |-> [kind |-> "table",
                     state |-> [i \in Rows(n_bh) |-> [t \in Vocab |->
                        IF scored(i, t) THEN KenLMOutState(state[i], token_list[t])
                        ELSE ZeroObj]],
                     scoring_table |-> [i \in Rows(n_bh) |-> [t \in Vocab |->
                        IF scored(i, t) THEN 1 ELSE -1]]],
         fields |-> self]

\* The rows of flag -1 are skipped; a live row is scored on its candidates, the
\* other entries keeping the sentinel, the state 0 and the flag -1.
KenLMScorer_score(self, inp_tokens, mem, cands, attn, n_bh) ==
    LET state == IF mem.kind = "None" THEN [i \in Rows(n_bh) |-> KenLMNewState] ELSE mem.state
        scoring_table == IF mem.kind = "None" THEN [i \in Rows(n_bh) |-> 1] ELSE mem.scoring_table
        cand(i) == IF cands.kind = "None" THEN Vocab ELSE cands.val[i]
        scored(i, t) == scoring_table[i] # -1 /\ t \in cand(i)
    IN  [score |-> [i \in Rows(n_bh) |-> [t \in Vocab |->
                        IF scored(i, t) THEN LN10 * KenLMBaseScore(state[i], token_list[t])
                        ELSE minus_inf]],
         memory |-> [kind |-> "table",
                     state |-> [i \in Rows(n_bh) |-> [t \in Vocab |->
                        IF scored(i, t) THEN KenLMOutState(state[i], token_list[t])
                        ELSE ZeroObj]],
                     scoring_table |-> [i \in Rows(n_bh) |-> [t \in Vocab |->
                        IF scored(i, t) THEN 1 ELSE -1]]],
         fields |-> self]

\* hyp_index with the batch offset left unscaled and the sum scaled instead:
\* (index[b][j] + batch_index[b] * beam_size) * vocab_size
KenLMHypIndex_sum_scaled(self, idx, b, j) ==
    (idx.val[b][j] + (IF self.batch_index = 1 THEN 0 ELSE b) * Cardinality(DOMAIN idx.val[0]))
        * self.vocab_size

\* hyp_index without the batch offset: index[b][j] alone.
KenLMHypIndex_no_offset(self, idx, b, j) == idx.val[b][j]

\* hyp_index of row (b, j): index[b][j] + batch_index[b] * beam_size * vocab_size,
\* where batch_index = np.arange(batch_index) is broadcast over the rows of index
\* (a batch_index of length 1 gives every row the offset 0).
KenLMHypIndex(self, idx, b, j) ==
    idx.val[b][j] + (IF self.batch_index = 1 THEN 0 ELSE b) * Cardinality(DOMAIN idx.val[0])
                        * self.vocab_size

\* KenLMScorer.permute_mem giving every slot the initial flag 1 in place of the
\* flag of the selected entry.
KenLMScorer_permute_mem_reset_flags(self, mem, idx) ==
    IF \/ mem.kind # "table" \/ idx.kind # "tensor" \/ idx.dim # 2
       \/ self.batch_index \notin {1, Cardinality(DOMAIN idx.val)}
    THEN [raised |-> TRUE, memory |-> mem]
    ELSE LET beam == Cardinality(DOMAIN idx.val[0])
             n == Cardinality(DOMAIN mem.state)
             width == Cardinality(DOMAIN mem.state[0])
             hyp_index == [i \in Rows(Cardinality(DOMAIN idx.val) * beam) |->
                              KenLMHypIndex(self, idx, i \div beam, i % beam)]
         IN  IF \E i \in DOMAIN hyp_index : hyp_index[i] \notin 0 .. (n * width - 1)
             THEN [raised |-> TRUE, memory |-> mem]
             ELSE [raised |-> FALSE,
                   memory |-> [kind |-> "rows",
                       state |-> [i \in DOMAIN hyp_index |->
                           mem.state[hyp_index[i] \div width][hyp_index[i] % width]],
                       scoring_table |-> [i \in DOMAIN hyp_index |-> 1]]]

\* state.reshape(-1)[hyp_index], scoring_table.reshape(-1)[hyp_index]; the
\* broadcast of batch_index raises unless its length is 1 or the rows of index.
KenLMScorer_permute_mem(self, mem, idx) ==
    IF \/ mem.kind # "table" \/ idx.kind # "tensor" \/ idx.dim # 2
       \/ self.batch_index \notin {1, Cardinality(DOMAIN idx.val)}
    THEN [raised |-> TRUE, memory |-> mem]
    ELSE LET beam == Cardinality(DOMAIN idx.val[0])
             n == Cardinality(DOMAIN mem.state)
             width == Cardinality(DOMAIN mem.state[0])
             hyp_index == [i \in Rows(Cardinality(DOMAIN idx.val) * beam) |->
                              KenLMHypIndex(self, idx, i \div beam, i % beam)]
         IN  IF \E i \in DOMAIN hyp_index : hyp_index[i] \notin 0 .. (n * width - 1)
             THEN [raised |-> TRUE, memory |-> mem]
             ELSE [raised |-> FALSE,
                   memory |-> [kind |-> "rows",
                       state |-> [i \in DOMAIN hyp_index |->
                           mem.state[hyp_index[i] \div width][hyp_index[i] % width]],
                       scoring_table |-> [i \in DOMAIN hyp_index |->
                           mem.scoring_table[hyp_index[i] \div width][hyp_index[i] % width]]]]

\* self.batch_index = np.arange(x.size(0)); return None
KenLMScorer_reset_mem(self, x) ==
    [memory |-> None, fields |-> [self EXCEPT !.batch_index = BatchOf(x)]]

\* --------------------------------------------------------- CoverageScorer
\* CoverageScorer.score without the division by time_step.
CoverageScorer_score_unnormalized(self, inp_tokens, coverage, cands, attn, n_bh) ==
    LET time_step == self.time_step + 1
        cov0(i) == IF coverage.kind = "None" THEN [p \in Source |-> 0] ELSE coverage.state[i]
        cov == IF AttnDims(attn) > 2
               THEN [i \in Rows(n_bh) |->
                        [p \in Source |->
                            SumOver([n \in DOMAIN attn[i] |-> attn[i][n][p]], DOMAIN attn[i])]]
               ELSE [i \in Rows(n_bh) |-> [p \in Source |-> cov0(i)[p] + attn[i][p]]]
        penalty(i) == SumOver([p \in Source |-> Max(cov[i][p], threshold)], Source)
                        - SrcLen * threshold
    IN  [score |-> [i \in Rows(n_bh) |-> [t \in Vocab |-> -(1 * penalty(i))]],
         memory |-> [kind |-> "rows", state |-> cov],
         fields |-> [self EXCEPT !.time_step = time_step]]

\* CoverageScorer.score adding a 3-D attention's sum to the incoming coverage.
CoverageScorer_score_accumulating(self, inp_tokens, coverage, cands, attn, n_bh) ==
    LET time_step == self.time_step + 1
        cov0(i) == IF coverage.kind = "None" THEN [p \in Source |-> 0] ELSE coverage.state[i]
        add(i) == IF AttnDims(attn) > 2
                  THEN [p \in Source |->
                          SumOver([n \in DOMAIN attn[i] |-> attn[i][n][p]], DOMAIN attn[i])]
                  ELSE attn[i]
        cov == [i \in Rows(n_bh) |-> [p \in Source |-> cov0(i)[p] + add(i)[p]]]
        penalty(i) == SumOver([p \in Source |-> Max(cov[i][p], threshold)], Source)
                        - SrcLen * threshold
    IN  [score |-> [i \in Rows(n_bh) |-> [t \in Vocab |-> -((1 * penalty(i)) \div time_step)]],
         memory |-> [kind |-> "rows", state |-> cov],
         fields |-> [self EXCEPT !.time_step = time_step]]

\* self.time_step += 1; coverage = torch.sum(attn, dim=1) for a 3-D attention, else
\* coverage = coverage + attn (zeros when None);
\* -1 * (max(coverage, threshold).sum(-1) - source_len * threshold) / self.time_step
CoverageScorer_score(self, inp_tokens, coverage, cands, attn, n_bh) ==
    LET time_step == self.time_step + 1
        cov0(i) == IF coverage.kind = "None" THEN [p \in Source |-> 0] ELSE coverage.state[i]
        cov == IF AttnDims(attn) > 2
               THEN [i \in Rows(n_bh) |->
                        [p \in Source |->
                            SumOver([n \in DOMAIN attn[i] |-> attn[i][n][p]], DOMAIN attn[i])]]
               ELSE [i \in Rows(n_bh) |-> [p \in Source |-> cov0(i)[p] + attn[i][p]]]
        penalty(i) == SumOver([p \in Source |-> Max(cov[i][p], threshold)], Source)
                        - SrcLen * threshold
    IN  [score |-> [i \in Rows(n_bh) |-> [t \in Vocab |-> -((1 * penalty(i)) \div time_step)]],
         memory |-> [kind |-> "rows", state |-> cov],
         fields |-> [self EXCEPT !.time_step = time_step]]

CoverageScorer_permute_mem(self, coverage, idx) == IndexSelect(coverage, idx)

\* CoverageScorer.reset_mem leaving time_step as the last utterance batch left it.
CoverageScorer_reset_mem_stale(self, x) ==
    [memory |-> None, fields |-> self]

\* self.time_step = 0; return None
CoverageScorer_reset_mem(self, x) ==
    [memory |-> None, fields |-> [self EXCEPT !.time_step = 0]]

\* ------------------------------------------------------------ LengthScorer
\* LengthScorer.score rewarding the candidates only.
LengthScorer_score_candidates(self, inp_tokens, mem, cands, attn, n_bh) ==
    [score |-> [i \in Rows(n_bh) |-> [t \in Vocab |->
                    IF cands.kind = "None" \/ t \in cands.val[i] THEN ONE ELSE 0]],
     memory |-> None,
     fields |-> self]

\* torch.tensor([1.0]).expand(inp_tokens.size(0), self.vocab_size), None
LengthScorer_score(self, inp_tokens, mem, cands, attn, n_bh) ==
    [score |-> [i \in Rows(n_bh) |-> [t \in Vocab |-> ONE]],
     memory |-> None,
     fields |-> self]

\* BaseScorerInterface.permute_mem and reset_mem, which LengthScorer inherits.
BaseScorerInterface_permute_mem(self, mem, idx) == [raised |-> FALSE, memory |-> None]

BaseScorerInterface_reset_mem(self, x) == [memory |-> None, fields |-> self]

\* ------------------------------------------------ dispatch on the class
Impl_score(impl, self, inp_tokens, mem, cands, attn, n_bh) ==
    CASE impl.cls = "CTCScorer" -> CTCScorer_score(self, inp_tokens, mem, cands, attn, n_bh)
      [] impl.cls = "RNNLMScorer" -> RNNLMScorer_score(self, inp_tokens, mem, cands, attn, n_bh)
      [] impl.cls = "TransformerLMScorer" ->
            TransformerLMScorer_score(self, inp_tokens, mem, cands, attn, n_bh)
      [] impl.cls = "KenLMScorer" -> KenLMScorer_score(self, inp_tokens, mem, cands, attn, n_bh)
      [] impl.cls = "CoverageScorer" ->
            CoverageScorer_score(self, inp_tokens, mem, cands, attn, n_bh)
      [] impl.cls = "LengthScorer" -> LengthScorer_score(self, inp_tokens, mem, cands, attn, n_bh)

Impl_permute_mem(impl, self, mem, idx) ==
    CASE impl.cls = "CTCScorer" -> CTCScorer_permute_mem(self, mem, idx)
      [] impl.cls = "RNNLMScorer" -> RNNLMScorer_permute_mem(self, mem, idx)
      [] impl.cls = "TransformerLMScorer" -> TransformerLMScorer_permute_mem(self, mem, idx)
      [] impl.cls = "KenLMScorer" -> KenLMScorer_permute_mem(self, mem, idx)
      [] impl.cls = "CoverageScorer" -> CoverageScorer_permute_mem(self, mem, idx)
      [] impl.cls = "LengthScorer" -> BaseScorerInterface_permute_mem(self, mem, idx)

Impl_reset_mem(impl, self, x) ==
    CASE impl.cls = "CTCScorer" -> CTCScorer_reset_mem(self, x)
      [] impl.cls = "RNNLMScorer" -> RNNLMScorer_reset_mem(self, x)
      [] impl.cls = "TransformerLMScorer" -> TransformerLMScorer_reset_mem(self, x)
      [] impl.cls = "KenLMScorer" -> KenLMScorer_reset_mem(self, x)
      [] impl.cls = "CoverageScorer" -> CoverageScorer_reset_mem(self, x)
      [] impl.cls = "LengthScorer" -> BaseScorerInterface_reset_mem(self, x)

\* ------------------------------------------------- ScorerBuilder.score
\* m[k] = v on a dict held as a function.
Put(m, k, v) == [j \in DOMAIN m \cup {k} |-> IF j = k THEN v ELSE m[j]]

\* log_probs += score, the weight left out.
AddWeighted_unweighted(lp, score, w) ==
    [i \in DOMAIN lp |-> [t \in Vocab |-> lp[i][t] + score[i][t] * WeightDen]]

\* log_probs += score * (weight or 1.0): a weight of 0 taken for a missing one.
AddWeighted_zero_default(lp, score, w) ==
    [i \in DOMAIN lp |-> [t \in Vocab |->
        lp[i][t] + score[i][t] * (IF w = 0 THEN WeightDen ELSE w)]]

\* log_probs += score * weight
AddWeighted(lp, score, w) ==
    [i \in DOMAIN lp |-> [t \in Vocab |-> lp[i][t] + score[i][t] * w]]

\* log_probs += score * weight with the name bound as in acc: a tensor is added to
\* in place, so the name stays bound to its tensor and, while that is the caller's
\* tensor, the caller's tensor takes the sum.
IAdd_rebinding(acc, score, w) ==
    [log_probs |-> AddWeighted(acc.log_probs, score, w),
     bound |-> "new tensor",
     buffer |-> acc.buffer]

IAdd(acc, score, w) ==
    [log_probs |-> AddWeighted(acc.log_probs, score, w),
     bound |-> acc.bound,
     buffer |-> IF acc.bound = "argument" THEN AddWeighted(acc.log_probs, score, w)
                ELSE acc.buffer]

\* The loop "for k, impl in scorers.items()" of ScorerBuilder.score from item i
\* on: acc is the running (log_probs, new_memory, instance attributes, calls),
\* with the caller's tensor (buffer) and the caller's dict (memory) beside them.
RECURSIVE ScoreLoop(_, _, _, _, _)
ScoreLoop(scorers, i, acc, ws, env) ==
    IF i > Len(scorers) THEN acc
    ELSE LET k == scorers[i][1]
             impl == scorers[i][2]
             r == Impl_score(impl, acc.fields[impl.id], env.inp_tokens, env.memory[k],
                             env.candidates, env.attn, env.n_bh)
             a == IAdd(acc, r.score, ws[k])
         IN  ScoreLoop(scorers, i + 1,
                 [log_probs |-> a.log_probs,
                  bound |-> a.bound,
                  buffer |-> a.buffer,
                  memory |-> acc.memory,
                  new_memory |-> Put(acc.new_memory, k, r.memory),
                  fields |-> [acc.fields EXCEPT ![impl.id] = r.fields],
                  calls |-> Append(acc.calls,
                               [name |-> k, id |-> impl.id, candidates |-> env.candidates,
                                memory |-> env.memory[k], score |-> r.score,
                                weight |-> ws[k], before |-> acc.log_probs,
                                inp_tokens |-> env.inp_tokens, attn |-> env.attn,
                                new_memory |-> r.memory, self |-> acc.fields[impl.id]])],
                 ws, env)

\* Python's round(n / d) for n >= 0, d > 0: to the nearest integer, a half to the even one.
RoundHalfEven(n, d) ==
    LET q == n \div d
        r == n % d
    IN  IF 2 * r < d THEN q
        ELSE IF 2 * r > d THEN q + 1
        ELSE IF q % 2 = 0 THEN q ELSE q + 1

\* round(beam_size * scorer_beam_scale)
NumCandidates_round(beam, scale) == RoundHalfEven(beam * scale[1], scale[2])

\* math.ceil(beam_size * scorer_beam_scale)
NumCandidates_ceil(beam, scale) == (beam * scale[1] + scale[2] - 1) \div scale[2]

\* int(beam_size * scorer_beam_scale) for a scale >= 0 given as a fraction.
NumCandidates(beam, scale) == (beam * scale[1]) \div scale[2]

\* The index sets log_probs[i].topk(k) may return for one row: k ids none of
\* which is beaten by an id left out (the order among equal values is not fixed).
RowTopK(row, k) ==
    {S \in SUBSET Vocab : /\ Cardinality(S) = k
                          /\ \A a \in S, b \in Vocab \ S : row[a] >= row[b]}

RECURSIVE TopKUpTo(_, _, _)
\* The candidate sets of rows 0..n-1.
TopKUpTo(lp, k, n) ==
    IF n = 0 THEN {[i \in {} |-> {}]}
    ELSE {[i \in 0 .. (n - 1) |-> IF i = n - 1 THEN S ELSE c[i]] :
             c \in TopKUpTo(lp, k, n - 1), S \in RowTopK(lp[n - 1], k)}

TopK(lp, k) == TopKUpTo(lp, k, Cardinality(DOMAIN lp))

\* topk taken on the buffer as it came in, before the full scorers added to it.
SelectCandidates_input(fused, lp, k) == TopK(lp, k)

\* _, candidates = log_probs.topk(int(beam_size * self.scorer_beam_scale), dim=-1)
\* on the buffer as the full scorers left it (lp is the buffer as it came in).
SelectCandidates(fused, lp, k) == TopK(fused, k)

\* The state of ScorerBuilder.score after its loop over the full scorers.
ScoreFull(fulls, ws, flds, inp_tokens, mem, attn, lp) ==
    ScoreLoop(fulls, 1,
              [log_probs |-> lp, bound |-> "argument", buffer |-> lp, memory |-> mem,
               new_memory |-> NoWeights, fields |-> flds, calls |-> <<>>],
              ws,
              [inp_tokens |-> inp_tokens, memory |-> mem, candidates |-> None,
               attn |-> attn, n_bh |-> Cardinality(DOMAIN lp)])

\* ... and after its loop over the partial scorers, given the candidates.
ScorePartial(partials, ws, afterFull, inp_tokens, mem, attn, cands) ==
    ScoreLoop(partials, 1, afterFull, ws,
              [inp_tokens |-> inp_tokens, memory |-> mem, candidates |-> cands,
               attn |-> attn, n_bh |-> Cardinality(DOMAIN afterFull.log_probs)])

\* ------------------------------------- ScorerBuilder.permute_scorer_mem
\* The rule without the exception for ctc and kenlm.
PermuteArg_noexception(k, isFull, idx, cands) ==
    IF isFull THEN idx ELSE cands

\* The argument ScorerBuilder.permute_scorer_mem passes to permute_mem of the
\* scorer registered under k.
PermuteArg(k, isFull, idx, cands) ==
    IF isFull /\ ~(k = "ctc" \/ k = "kenlm") THEN idx ELSE cands

\* The loop over one dict from item i on; it stops at the first permute_mem that
\* raises, the entries already assigned staying assigned.
RECURSIVE PermuteLoop(_, _, _, _, _, _)
PermuteLoop(scorers, i, acc, isFull, idx, cands) ==
    IF i > Len(scorers) \/ acc.raised THEN acc
    ELSE LET k == scorers[i][1]
             impl == scorers[i][2]
             arg == PermuteArg(k, isFull, idx, cands)
             r == Impl_permute_mem(impl, acc.fields[impl.id], acc.memory[k], arg)
         IN  PermuteLoop(scorers, i + 1,
                 [memory |-> IF r.raised THEN acc.memory ELSE Put(acc.memory, k, r.memory),
                  fields |-> acc.fields,
                  raised |-> r.raised,
                  permutes |-> Append(acc.permutes,
                                  [name |-> k, id |-> impl.id, full |-> isFull, arg |-> arg,
                                   memory |-> acc.memory[k]])],
                 isFull, idx, cands)

ScorerBuilder_permute_scorer_mem(fulls, partials, flds, mem, idx, cands) ==
    PermuteLoop(partials, 1,
        PermuteLoop(fulls, 1,
            [memory |-> mem, fields |-> flds, raised |-> FALSE, permutes |-> <<>>],
            TRUE, idx, cands),
        FALSE, idx, cands)

\* --------------------------------------- ScorerBuilder.reset_scorer_mem
RECURSIVE ResetLoop(_, _, _, _)
ResetLoop(scorers, i, acc, x) ==
    IF i > Len(scorers) THEN acc
    ELSE LET k == scorers[i][1]
             impl == scorers[i][2]
             r == Impl_reset_mem(impl, acc.fields[impl.id], x)
         IN  ResetLoop(scorers, i + 1,
                 [memory |-> Put(acc.memory, k, r.memory),
                  fields |-> [acc.fields EXCEPT ![impl.id] = r.fields],
                  resets |-> Append(acc.resets, impl.id)],
                 x)

\* reset_scorer_mem going over the full scorers only.
ScorerBuilder_reset_scorer_mem_full_only(fulls, partials, flds, x) ==
    ResetLoop(fulls, 1,
              [memory |-> NoWeights, fields |-> flds, resets |-> <<>>], x)

\* memory = dict(); for k, impl in {**full_scorers, **partial_scorers}.items():
\*     memory[k] = impl.reset_mem(x, enc_lens)
ScorerBuilder_reset_scorer_mem(fulls, partials, flds, x) ==
    ResetLoop(DictMerge(fulls, partials), 1,
              [memory |-> NoWeights, fields |-> flds, resets |-> <<>>], x)

\* ------------------------------------------------------------ the searcher
\* The beam search that drives the builder: it selects, for every utterance b
\* and beam slot j, a candidate in [0, beam_size * vocab_size), the flattened
\* (parent slot, token) pair, and derives the index of the parent rows.
inp_tokens_of(h) == [i \in DOMAIN h |-> Last(h[i])]

Predecessors(cand, beam) ==
    [i \in Rows(BatchSize * beam) |->
        (cand[i \div beam][i % beam] \div VocabSize) + (i \div beam) * beam]

SelStrides == {1, VocabSize + 1}

BeamSelect(a, d, beam) ==
    [b \in Batch |-> [j \in 0 .. (beam - 1) |-> (a + b + j * d) % (beam * VocabSize)]]

Extend(h, cand, beam) ==
    [i \in Rows(BatchSize * beam) |->
        Append(h[Predecessors(cand, beam)[i]], cand[i \div beam][i % beam] % VocabSize)]

\* ------------------------------------------------------------ the actions
ClearScore ==
    /\ lp_in' = None
    /\ passed' = None
    /\ log_probs' = None
    /\ candidates' = None
    /\ calls' = <<>>

ClearPermute ==
    /\ pre_memory' = NoWeights
    /\ index' = None
    /\ sel' = None
    /\ permutes' = <<>>

\* A new utterance batch: memory = reset_scorer_mem(x, enc_lens).
Reset ==
    /\ phase \in {"built", "scored", "permuted"}
    /\ sessions < MaxSessions
    /\ \E x \in EncInputs, beam \in 1 .. MaxBeam :
        LET r == ScorerBuilder_reset_scorer_mem(full_scorers, partial_scorers, fields, x)
        IN  /\ enc' = x
            /\ beam_size' = beam
            /\ memory' = r.memory
            /\ fields' = r.fields
            /\ resets' = r.resets
            /\ hyps' = [i \in Rows(BatchSize * beam) |-> <<BosIndex>>]
    /\ phase' = "reset"
    /\ sessions' = sessions + 1
    /\ step' = 0
    /\ ClearScore
    /\ ClearPermute
    /\ UNCHANGED <<error, config, weights, full_scorers, partial_scorers, scorer_beam_scale, runs, made, multi_step, stm>>

\* One decoding step: log_probs, memory = score(inp_tokens, memory, attn, log_probs, beam_size).
Score ==
    /\ phase \in {"reset", "permuted"}
    /\ step < MaxSteps
    /\ LET lp == [i \in DOMAIN hyps |-> DecoderLogProbs(enc, hyps[i], i)]
           attn == [i \in DOMAIN hyps |-> AttentionOf(enc, hyps[i], multi_step)]
           toks == inp_tokens_of(hyps)
           afterFull == ScoreFull(full_scorers, weights, fields, toks, memory, attn, lp)
           k == NumCandidates(beam_size, scorer_beam_scale)
       IN  /\ lp_in' = Tensor(2, lp)
           /\ IF k > VocabSize
              THEN \* topk raises: the buffer and the instances keep what the full scorers did
                   /\ phase' = "raised"
                   /\ error' = "RuntimeError: selected index k out of range"
                   /\ log_probs' = Tensor(2, afterFull.log_probs)
                   /\ passed' = [log_probs |-> Tensor(2, afterFull.buffer),
                                 memory |-> afterFull.memory, returned |-> "nothing"]
                   /\ fields' = afterFull.fields
                   /\ calls' = afterFull.calls
                   /\ candidates' = None
                   /\ UNCHANGED memory
              ELSE \E c \in SelectCandidates(afterFull.log_probs, lp, k) :
                   LET done == ScorePartial(partial_scorers, weights, afterFull, toks,
                                            memory, attn, Tensor(2, c))
                   IN  /\ phase' = "scored"
                       /\ error' = "none"
                       /\ log_probs' = Tensor(2, done.log_probs)
                       /\ passed' = [log_probs |-> Tensor(2, done.buffer),
                                     memory |-> done.memory, returned |-> done.bound]
                       /\ fields' = done.fields
                       /\ calls' = done.calls
                       /\ candidates' = Tensor(2, c)
                       /\ memory' = done.new_memory
    /\ step' = step + 1
    /\ ClearPermute
    /\ UNCHANGED <<config, weights, full_scorers, partial_scorers, scorer_beam_scale,
                   sessions, resets, enc, beam_size, hyps, runs, made, multi_step, stm>>

\* Beam selection, then memory = permute_scorer_mem(memory, index, candidates).
Permute ==
    /\ phase = "scored"
    /\ \E a \in Vocab, d \in SelStrides :
        LET cand == BeamSelect(a, d, beam_size)
            idx == Predecessors(cand, beam_size)
            r == ScorerBuilder_permute_scorer_mem(full_scorers, partial_scorers, fields,
                                                  memory, Tensor(1, idx), Tensor(2, cand))
        IN  /\ pre_memory' = memory
            /\ index' = Tensor(1, idx)
            /\ sel' = Tensor(2, cand)
            /\ permutes' = r.permutes
            /\ memory' = r.memory
            /\ IF r.raised
               THEN /\ phase' = "raised"
                    /\ error' = "RuntimeError: permute_mem"
                    /\ UNCHANGED hyps
               ELSE /\ phase' = "permuted"
                    /\ error' = "none"
                    /\ hyps' = Extend(hyps, cand, beam_size)
    /\ UNCHANGED <<config, weights, full_scorers, partial_scorers, scorer_beam_scale,
                   fields, sessions, resets, enc, beam_size, step, runs, made, multi_step, stm>>
    /\ UNCHANGED scoreVars

\* ------------------------------------------------- decoding runs (Spec)
Inst(c, n) == [cls |-> c, id |-> n]

Cfg(w, f, p, s) ==
    [weights |-> w, full_scorers |-> f, partial_scorers |-> p, scorer_beam_scale |-> s]

W1(k1, v1) == [k \in {k1} |-> v1]
W2(k1, v1, k2, v2) == [k \in {k1, k2} |-> IF k = k1 THEN v1 ELSE v2]
W3(k1, v1, k2, v2, k3, v3) ==
    [k \in {k1, k2, k3} |-> IF k = k1 THEN v1 ELSE IF k = k2 THEN v2 ELSE v3]

\* The builders decoded with: those of the docstrings, and the registrations
\* the interface allows besides (any scorer may be full or partial).
SessionConfigs ==
    { \* ScorerBuilder's docstring: transformerlm + coverage full, ctc partial
      Cfg(W3("transformerlm", 1, "ctc", 1, "coverage", WeightDen),
          <<Inst("TransformerLMScorer", 1), Inst("CoverageScorer", 2)>>,
          <<Inst("CTCScorer", 3)>>, <<3, 2>>),
      \* CTCScorer's docstring: pure CTC
      Cfg(W1("ctc", WeightDen), <<Inst("CTCScorer", 1)>>, <<>>, <<3, 2>>),
      \* CoverageScorer's docstring
      Cfg(W2("rnnlm", 1, "coverage", WeightDen),
          <<Inst("RNNLMScorer", 1), Inst("CoverageScorer", 2)>>, <<>>, <<3, 2>>),
      \* KenLMScorer's docstring: the n-gram model as a full scorer
      Cfg(W1("kenlm", 1), <<Inst("KenLMScorer", 1)>>, <<>>, <<3, 2>>),
      \* the n-gram model as a partial scorer: weight positive, negative, zero
      Cfg(W2("rnnlm", WeightDen, "kenlm", 1),
          <<Inst("RNNLMScorer", 1)>>, <<Inst("KenLMScorer", 2)>>, <<1, 1>>),
      Cfg(W2("rnnlm", 1, "kenlm", -1),
          <<Inst("RNNLMScorer", 1)>>, <<Inst("KenLMScorer", 2)>>, <<1, 1>>),
      \* two partial scorers, the first with weight zero
      Cfg(W3("rnnlm", 1, "kenlm", 0, "ctc", 1),
          <<Inst("RNNLMScorer", 1)>>, <<Inst("KenLMScorer", 2), Inst("CTCScorer", 3)>>,
          <<1, 1>>),
      \* scorers that ignore candidates, registered as partial scorers
      Cfg(W2("rnnlm", 0, "length", 1),
          <<Inst("RNNLMScorer", 1)>>, <<Inst("LengthScorer", 2)>>, <<1, 1>>),
      Cfg(W2("length", 1, "transformerlm", 1),
          <<Inst("LengthScorer", 1)>>, <<Inst("TransformerLMScorer", 2)>>, <<3, 2>>),
      \* a larger scale
      Cfg(W1("transformerlm", 1), <<Inst("TransformerLMScorer", 1)>>, <<>>, <<2, 1>>),
      \* one instance registered as full and as partial scorer
      Cfg(W2("coverage", 1, "length", 0),
          <<Inst("CoverageScorer", 1)>>, <<Inst("CoverageScorer", 1)>>, <<3, 2>>),
      \* two instances of one class
      Cfg(W2("rnnlm", 1, "length", 0),
          <<Inst("RNNLMScorer", 1), Inst("RNNLMScorer", 2)>>, <<>>, <<3, 2>>),
      \* a weight for another scorer than the one supplied
      Cfg(W1("length", 1), <<Inst("RNNLMScorer", 1)>>, <<>>, <<3, 2>>) }

SessionConstruct ==
    /\ phase = "unbuilt"
    /\ \E cfg \in SessionConfigs : Construct(cfg)
    /\ UNCHANGED multi_step

Next == SessionConstruct \/ Reset \/ Score \/ Permute

Spec == Init /\ [][Next]_vars

\* --------------------------------------------- construction runs (BuildSpec)
\* The instances a caller may hand to the constructor: two of them share a class.
BuildInstances ==
    {[cls |-> "CTCScorer", id |-> 1], [cls |-> "CoverageScorer", id |-> 2],
     [cls |-> "RNNLMScorer", id |-> 3], [cls |-> "RNNLMScorer", id |-> 4]}

BuildKeys == {"ctc", "coverage", "rnnlm", "mylm"}

\* -1/WeightDen, 0, 1/WeightDen, 1.0 and 1.0 + 1/WeightDen
WeightVals == {-1, 0, 1, WeightDen, WeightDen + 1}

BuildWeights ==
    UNION {[K -> WeightVals] : K \in {J \in SUBSET BuildKeys : Cardinality(J) <= MaxWeightKeys + 1}}

BuildFulls == SeqsUpTo(BuildInstances, MaxFull)

BuildPartials == SeqsUpTo({i \in BuildInstances : i.id \in {1, 3}}, MaxPartial)

BuildConstruct ==
    /\ phase = "unbuilt"
    /\ \E w \in BuildWeights, f \in BuildFulls, p \in BuildPartials :
          Construct([weights |-> w, full_scorers |-> f, partial_scorers |-> p,
                     scorer_beam_scale |-> <<3, 2>>])
    /\ UNCHANGED multi_step

BuildNext == BuildConstruct \/ Discard

BuildSpec == Init /\ [][BuildNext]_vars

\* ------------------------------------------ permute_mem runs (GatherSpec)
\* permute_mem called on its own: on a memory whose every slot holds a tag
\* naming the slot, with an index out of a family that duplicates and drops
\* slots, at batch size AddrBatch, beam size AddrBeam, vocabulary AddrVocab.
AddrRows == Rows(AddrBatch * AddrBeam)

AddrVocabIds == 0 .. (AddrVocab - 1)

TaggedRows == [kind |-> "rows", state |-> [r \in AddrRows |-> <<r>>]]

\* What KenLMScorer.score returns as memory: one state and one flag per (row, id).
TaggedTable ==
    [kind |-> "table",
     state |-> [r \in AddrRows |-> [t \in AddrVocabIds |-> <<r, t>>]],
     scoring_table |-> [r \in AddrRows |-> [t \in AddrVocabIds |->
                           IF (r + t) % 2 = 0 THEN 1 ELSE -1]]]

\* index of shape (batch * beam,): the row each row descends from.
CraftedIndex(a, d) ==
    [i \in AddrRows |-> (a + i * d) % (AddrBatch * AddrBeam)]

\* index of shape (batch, beam) with entries in [0, beam * vocab).
CraftedCandidates(a, d) ==
    [b \in 0 .. (AddrBatch - 1) |-> [k \in 0 .. (AddrBeam - 1) |->
        (a + b + k * d) % (AddrBeam * AddrVocab)]]

GatherClasses == {"RNNLMScorer", "TransformerLMScorer", "CoverageScorer", "KenLMScorer"}

\* The instance under test after reset_mem on a batch of AddrBatch utterances.
GatherFields ==
    [NewFields EXCEPT !.batch_index = AddrBatch, !.vocab_size = AddrVocab]

\* The caller prepares an instance, a memory and an index.
GatherCraft ==
    /\ phase = "unbuilt"
    /\ \E cls \in GatherClasses, a \in 0 .. (AddrBeam * AddrVocab - 1),
          d \in 0 .. (AddrBeam * AddrVocab - 1) :
        LET k == CanonicalName(cls)
            arg == IF cls = "KenLMScorer" THEN Tensor(2, CraftedCandidates(a, d))
                   ELSE Tensor(1, CraftedIndex(a, d))
            mem == IF cls = "KenLMScorer" THEN TaggedTable ELSE TaggedRows
        IN  /\ full_scorers' = <<<<k, [cls |-> cls, id |-> 1]>>>>
            /\ fields' = [fields EXCEPT ![1] = GatherFields]
            /\ pre_memory' = Put(NoWeights, k, mem)
            /\ memory' = Put(NoWeights, k, mem)
            /\ index' = arg
    /\ phase' = "crafted"
    /\ sel' = None
    /\ permutes' = <<>>
    /\ UNCHANGED <<error, config, weights, partial_scorers, scorer_beam_scale,
                   sessions, resets, enc, beam_size, step, hyps, runs, made, multi_step, stm>>
    /\ UNCHANGED scoreVars

\* memory = impl.permute_mem(memory, index)
GatherPermute ==
    /\ phase = "crafted"
    /\ LET k == full_scorers[1][1]
           impl == full_scorers[1][2]
           r == Impl_permute_mem(impl, fields[impl.id], memory[k], index)
       IN  /\ memory' = Put(memory, k, r.memory)
           /\ phase' = IF r.raised THEN "raised" ELSE "permuted"
           /\ error' = IF r.raised THEN "RuntimeError: permute_mem" ELSE "none"
           /\ permutes' = <<[name |-> k, id |-> impl.id, full |-> TRUE, arg |-> index,
                             memory |-> memory[k]]>>
    /\ UNCHANGED <<config, weights, full_scorers, partial_scorers, scorer_beam_scale,
                   fields, sessions, resets, enc, beam_size, step, hyps, runs, made, multi_step, stm>>
    /\ UNCHANGED <<scoreVars, pre_memory, index, sel>>

GatherNext == GatherCraft \/ GatherPermute

GatherSpec == Init /\ [][GatherNext]_vars

\* ------------------------------- searchers on shared instances (SharedSpec)
\* Two searchers decode with one ScorerBuilder, hence with the same scorer
\* instances. Every reset_scorer_mem, score and permute_scorer_mem call runs to
\* completion; the calls of the two searchers alternate in any order.
\* Every scorer is registered as a full scorer, so the candidates of
\* ScorerBuilder.score reach no scorer.
SharedConfig ==
    Cfg([k \in all_scorer_names |-> 1],
        <<Inst("CoverageScorer", 1), Inst("CTCScorer", 2), Inst("KenLMScorer", 3),
          Inst("RNNLMScorer", 4), Inst("TransformerLMScorer", 5), Inst("LengthScorer", 6)>>,
        <<>>, <<3, 2>>)

SharedConstruct ==
    /\ phase = "unbuilt"
    /\ Construct(SharedConfig)
    /\ UNCHANGED multi_step

\* The searcher's selection for nb utterances, the parent rows and the
\* extended hypotheses (BeamSelect, Predecessors, Extend at batch size nb).
CandidatesOf(a, beam, nb) ==
    [b \in 0 .. (nb - 1) |-> [j \in 0 .. (beam - 1) |-> (a + b + j) % (beam * VocabSize)]]

ParentsOf(cand, beam, nb) ==
    [i \in Rows(nb * beam) |->
        (cand[i \div beam][i % beam] \div VocabSize) + (i \div beam) * beam]

ExtendBy(h, cand, beam, nb) ==
    [i \in Rows(nb * beam) |->
        Append(h[ParentsOf(cand, beam, nb)[i]], cand[i \div beam][i % beam] % VocabSize)]

\* The utterance batches the searchers decode: A a batch of BatchSize
\* utterances, B the same batch, another one, or a single utterance.
SharedInputs(s) == IF s = "A" THEN {0} ELSE EncInputs \cup {SingleUtterance}

\* What a call of searcher s does to the other searchers: those that are
\* decoding have seen a foreign call since their own last call.
Others(s) ==
    [t \in Searchers |-> [runs[t] EXCEPT !.foreign = runs[t].pc # "idle"]]

\* Searcher s starts an utterance batch: memory = reset_scorer_mem(x, enc_lens).
SReset(s) ==
    /\ phase = "built"
    /\ runs[s].pc = "idle"
    /\ \E x \in SharedInputs(s) :
        LET r == ScorerBuilder_reset_scorer_mem(full_scorers, partial_scorers, fields, x)
            beam == beam_size
            a == ScorerBuilder_reset_scorer_mem(full_scorers, partial_scorers,
                                                runs[s].alone.fields, x)
        IN  /\ fields' = r.fields
            /\ runs' = [Others(s) EXCEPT ![s] =
                   [pc |-> "reset", x |-> x, beam |-> beam, step |-> 0,
                    hyps |-> [i \in Rows(BatchOf(x) * beam) |-> <<BosIndex>>],
                    memory |-> r.memory, calls |-> <<>>,
                    foreign |-> FALSE, interfered |-> FALSE, dirty |-> FALSE,
                    alone |-> [pc |-> "reset", fields |-> a.fields,
                               memory |-> a.memory, calls |-> <<>>]]]
    /\ UNCHANGED <<builderVars, sessions, resets, enc, beam_size, step, hyps, memory,
                   scoreVars, permuteVars, made, multi_step, stm>>

\* One decoding step of searcher s:
\* log_probs, memory = score(inp_tokens, memory, attn, log_probs, beam_size).
SScore(s) ==
    /\ phase = "built"
    /\ runs[s].pc \in {"reset", "permuted"}
    /\ runs[s].step < MaxSteps
    /\ LET me == runs[s]
           lp == [i \in DOMAIN me.hyps |-> DecoderLogProbs(me.x, me.hyps[i], i)]
           attn == [i \in DOMAIN me.hyps |-> AttnOf(me.x, me.hyps[i])]
           toks == inp_tokens_of(me.hyps)
           afterFull == ScoreFull(full_scorers, weights, fields, toks, me.memory, attn, lp)
           aloneFull == ScoreFull(full_scorers, weights, me.alone.fields, toks,
                                  me.alone.memory, attn, lp)
           k == NumCandidates(me.beam, scorer_beam_scale)
           seen == [me EXCEPT !.step = me.step + 1,
                              !.interfered = me.interfered \/ me.foreign,
                              !.dirty = me.dirty \/ fields # me.alone.fields,
                              !.foreign = FALSE]
       IN  IF k > VocabSize
           THEN /\ fields' = afterFull.fields
                /\ runs' = [Others(s) EXCEPT ![s] =
                       [seen EXCEPT !.pc = "raised", !.calls = afterFull.calls,
                                    !.alone = [me.alone EXCEPT !.pc = "raised",
                                                  !.fields = aloneFull.fields,
                                                  !.calls = aloneFull.calls]]]
           ELSE \E c \in SelectCandidates(afterFull.log_probs, lp, k) :
                LET done == ScorePartial(partial_scorers, weights, afterFull, toks,
                                         me.memory, attn, Tensor(2, c))
                IN  /\ fields' = done.fields
                    /\ runs' = [Others(s) EXCEPT ![s] =
                           [seen EXCEPT !.pc = "scored", !.calls = done.calls,
                                        !.memory = done.new_memory,
                                        !.alone = [pc |-> "scored",
                                                   fields |-> aloneFull.fields,
                                                   memory |-> aloneFull.new_memory,
                                                   calls |-> aloneFull.calls]]]
    /\ UNCHANGED <<builderVars, sessions, resets, enc, beam_size, step, hyps, memory,
                   scoreVars, permuteVars, made, multi_step, stm>>

\* Beam selection of searcher s (both searchers select alike: at step n the
\* candidates of CandidatesOf(n, ...)), then
\* memory = permute_scorer_mem(memory, index, candidates).
SPermute(s) ==
    /\ phase = "built"
    /\ runs[s].pc = "scored"
    /\ \E a \in {runs[s].step % VocabSize} :
        LET me == runs[s]
            nb == BatchOf(me.x)
            cand == CandidatesOf(a, me.beam, nb)
            idx == ParentsOf(cand, me.beam, nb)
            r == ScorerBuilder_permute_scorer_mem(full_scorers, partial_scorers, fields,
                                                  me.memory, Tensor(1, idx), Tensor(2, cand))
            ra == ScorerBuilder_permute_scorer_mem(full_scorers, partial_scorers,
                                                   me.alone.fields, me.alone.memory,
                                                   Tensor(1, idx), Tensor(2, cand))
        IN  runs' = [Others(s) EXCEPT ![s] =
                [me EXCEPT !.pc = IF r.raised THEN "raised" ELSE "permuted",
                           !.memory = r.memory,
                           !.hyps = IF r.raised THEN me.hyps
                                    ELSE ExtendBy(me.hyps, cand, me.beam, nb),
                           !.interfered = me.interfered \/ me.foreign,
                           !.dirty = me.dirty \/ fields # me.alone.fields,
                           !.foreign = FALSE,
                           !.alone = [me.alone EXCEPT
                                         !.pc = IF ra.raised THEN "raised" ELSE "permuted",
                                         !.memory = ra.memory]]]
    /\ UNCHANGED <<builderVars, sessionVars, scoreVars, permuteVars, made, multi_step, stm>>

SharedNext ==
    \/ SharedConstruct
    \/ \E s \in Searchers : SReset(s)
    \/ \E s \in Searchers : SScore(s)
    \/ \E s \in Searchers : SPermute(s)

SharedSpec == Init /\ [][SharedNext]_vars

\* ------------------------------------------ scorer construction (MakeSpec)
\* KenLMScorer.__init__ without the comparison of len(token_list) with vocab_size.
KenLMScorer_init_unchecked(installed, vocab_size, tl) ==
    IF ~installed
    THEN [raised |-> TRUE, error |-> "ImportError: Couldn't import KenLM", obj |-> None]
    ELSE [raised |-> FALSE, error |-> "none",
          obj |-> [kind |-> "KenLMScorer", vocab_size |-> vocab_size,
                   full_candidates |-> 0 .. (vocab_size - 1), minus_inf |-> minus_inf,
                   id2char |-> [t \in 1 .. Len(tl) |-> tl[t]]]]

\* KenLMScorer(lm_path, vocab_size, token_list): the import of kenlm, then the
\* attributes in the order __init__ assigns them; an exception leaves the
\* caller without an object.
KenLMScorer_init(installed, vocab_size, tl) ==
    IF ~installed
    THEN [raised |-> TRUE, error |-> "ImportError: Couldn't import KenLM", obj |-> None]
    ELSE IF Len(tl) # vocab_size
    THEN [raised |-> TRUE,
          error |-> "ValueError: The size of the token_list and vocab_size are not matched.",
          obj |-> None]
    ELSE [raised |-> FALSE, error |-> "none",
          obj |-> [kind |-> "KenLMScorer", vocab_size |-> vocab_size,
                   full_candidates |-> 0 .. (vocab_size - 1), minus_inf |-> minus_inf,
                   id2char |-> [t \in 0 .. (vocab_size - 1) |-> tl[t + 1]]]]

\* The words a token_list is made of.
Words == {"a", "b"}

\* The caller constructs an n-gram scorer.
MakeKenLM ==
    /\ \E installed \in BOOLEAN, vocab_size \in 0 .. (VocabSize + 1),
          tl \in SeqsUpTo(Words, VocabSize + 1) :
        LET r == KenLMScorer_init(installed, vocab_size, tl)
        IN  made' = [kind |-> "call", installed |-> installed, vocab_size |-> vocab_size,
                     token_list |-> tl, raised |-> r.raised, error |-> r.error,
                     obj |-> r.obj]
    /\ UNCHANGED <<builderVars, sessionVars, scoreVars, permuteVars, runs, multi_step, stm>>

\* The caller drops what the last call gave.
DropMade ==
    /\ made # None
    /\ made' = None
    /\ UNCHANGED <<builderVars, sessionVars, scoreVars, permuteVars, runs, multi_step, stm>>

MakeNext == MakeKenLM \/ DropMade

MakeSpec == Init /\ [][MakeNext]_vars

\* ------------------------------------- decoders of both kinds (AttnSpec)
\* Builders with CoverageScorer as a full scorer: alone, and as in its docstring.
AttnConfigs ==
    { Cfg(W1("coverage", WeightDen), <<Inst("CoverageScorer", 1)>>, <<>>, <<3, 2>>),
      Cfg(W2("rnnlm", 1, "coverage", WeightDen),
          <<Inst("RNNLMScorer", 1), Inst("CoverageScorer", 2)>>, <<>>, <<3, 2>>) }

\* A searcher around an attentional RNN decoder (the attention of the current
\* step) or around a transformer decoder (the attention of all steps).
AttnConstruct ==
    /\ phase = "unbuilt"
    /\ \E cfg \in AttnConfigs : Construct(cfg)
    /\ multi_step' \in BOOLEAN
    /\ UNCHANGED stm

AttnNext == AttnConstruct \/ Reset \/ Score \/ Permute

AttnSpec == Init /\ [][AttnNext]_vars

\* --------------------------------- one builder, batch after batch (ResetSpec)
\* Builders whose scorers keep attributes between calls: a CoverageScorer given
\* as full scorer with another CoverageScorer given as partial scorer, the
\* builder of ScorerBuilder's docstring, and an n-gram partial scorer.
ResetConfigs ==
    { Cfg(W2("coverage", 1, "length", 0),
          <<Inst("CoverageScorer", 1)>>, <<Inst("CoverageScorer", 2)>>, <<3, 2>>),
      Cfg(W3("transformerlm", 1, "ctc", 1, "coverage", WeightDen),
          <<Inst("TransformerLMScorer", 1), Inst("CoverageScorer", 2)>>,
          <<Inst("CTCScorer", 3)>>, <<3, 2>>),
      Cfg(W2("rnnlm", WeightDen, "kenlm", 1),
          <<Inst("RNNLMScorer", 1)>>, <<Inst("KenLMScorer", 2)>>, <<1, 1>>) }

ResetConstruct ==
    /\ phase = "unbuilt"
    /\ \E cfg \in ResetConfigs : Construct(cfg)
    /\ UNCHANGED multi_step

ResetNext == ResetConstruct \/ Reset \/ Score \/ Permute

ResetSpec == Init /\ [][ResetNext]_vars

\* ------------------------------------------- recipes/ESTER12 (StmSpec)
\* A path is the sequence of its components; a split pattern such as r"/train/"
\* is the component it names, and re.search finds it when the path has it.
re_search(pattern, filename) ==
    \E n \in 1 .. Len(filename.path) : filename.path[n] = pattern

\* The .stm files glob.glob may return, each with the number that orders its
\* segment IDs.
StmFiles ==
    { [id |-> 1, path |-> <<"ESTER1", "train", "a.stm">>],
      [id |-> 2, path |-> <<"ESTER2", "dev", "train", "b.stm">>],
      [id |-> 3, path |-> <<"ESTER2", "test", "c.stm">>],
      [id |-> 4, path |-> <<"ETAPE", "doc", "d.stm">>],
      [id |-> 5, path |-> <<"ESTER1", "train", "test", "part.stm">>] }

\* The lines of a file that give a segment (a transcription, a wav that covers it).
KeptLines(filename) == IF filename.id % 2 = 1 THEN <<1, 2>> ELSE <<1>>

\* The row appended for line n of a file; ID orders the rows of a csv file.
StmRow(filename, n) == [ID |-> filename.id * 10 + n, file |-> filename.id]

StmList(v) == [kind |-> "list", val |-> v]
StmDict(v) == [kind |-> "dict", val |-> v]

\* The calls made: the docstring's, two patterns in one split, named test
\* splits that overlap the train split, a test split named "n", no test splits.
StmCalls ==
    { [tr_splits |-> <<"train">>, dev_splits |-> <<"dev">>,
       te_splits |-> StmList(<<"test">>), exclude |-> None],
      [tr_splits |-> <<"train", "ESTER1">>, dev_splits |-> <<"dev">>,
       te_splits |-> StmList(<<"test">>), exclude |-> [kind |-> "re", val |-> "part.stm"]],
      [tr_splits |-> <<"train">>, dev_splits |-> <<"dev">>,
       te_splits |-> StmDict(<<<<"test_ESTER1", <<"ESTER1">>>>, <<"test_ESTER2", <<"ESTER2">>>>>>),
       exclude |-> None],
      [tr_splits |-> <<"train">>, dev_splits |-> <<"dev">>,
       te_splits |-> StmDict(<<<<"n", <<"test">>>>>>), exclude |-> None],
      [tr_splits |-> <<"train">>, dev_splits |-> <<"dev">>,
       te_splits |-> None, exclude |-> None] }

\* split_info = [(tr_splits, "train", []), (dev_splits, "dev", [])], then the test
\* splits: one entry "test" for a list, one entry per item for a dict.
SplitInfo(tr_splits, dev_splits, te_splits) ==
    <<[sp |-> tr_splits, id |-> "train", info |-> <<>>],
      [sp |-> dev_splits, id |-> "dev", info |-> <<>>]>>
    \o (IF te_splits.kind = "list"
        THEN <<[sp |-> te_splits.val, id |-> "test", info |-> <<>>]>>
        ELSE IF te_splits.kind = "dict"
        THEN [k \in 1 .. Len(te_splits.val) |->
                 [sp |-> te_splits.val[k][2], id |-> te_splits.val[k][1], info |-> <<>>]]
        ELSE <<>>)

\* for sp, id, _info in split_info: for tr in sp: if re.search(tr, filename):
\*     split = id; info = _info; break
\* from entry k on; info is the place of the entry whose list it names (0: None).
RECURSIVE FindSplit(_, _, _, _)
FindSplit(split_info, k, acc, filename) ==
    IF k > Len(split_info) THEN acc
    ELSE FindSplit(split_info, k + 1,
             IF \E n \in 1 .. Len(split_info[k].sp) : re_search(split_info[k].sp[n], filename)
             THEN [split |-> split_info[k].id, info |-> k]
             ELSE acc,
             filename)

\* sorted(info, key=lambda x: x["ID"])
RECURSIVE SortedById(_)
SortedById(info) ==
    IF Len(info) = 0 THEN <<>>
    ELSE LET m == CHOOSE n \in 1 .. Len(info) : \A l \in 1 .. Len(info) : info[n].ID <= info[l].ID
         IN  <<info[m]>> \o SortedById([l \in 1 .. (Len(info) - 1) |->
                                           IF l < m THEN info[l] ELSE info[l + 1]])

\* The csv files written by the loop over split_info from entry k on: the loop
\* ends at the first empty list (sys.exit(1)).
RECURSIVE WriteCsv(_, _, _)
WriteCsv(split_info, k, acc) ==
    IF k > Len(split_info) \/ acc.exited THEN acc
    ELSE IF Len(split_info[k].info) = 0
    THEN [acc EXCEPT !.exited = TRUE]
    ELSE WriteCsv(split_info, k + 1,
                  [acc EXCEPT !.csv = DictSet(acc.csv, split_info[k].id,
                                              SortedById(split_info[k].info))])

\* The distinct files glob.glob returns, in any order, MaxFiles at most.
StmPathLists ==
    {p \in SeqsUpTo(StmFiles, MaxFiles) : \A a, b \in 1 .. Len(p) : a # b => p[a] # p[b]}

\* prepare_stm(...) up to the loop over the files.
StmStart ==
    /\ stm.pc = "idle"
    /\ \E c \in StmCalls, paths \in StmPathLists :
          stm' = [pc |-> "files", conf |-> c, stm_paths |-> paths, i |-> 1,
                  split_info |-> SplitInfo(c.tr_splits, c.dev_splits, c.te_splits),
                  train_transcript_words |-> <<>>, csv |-> <<>>]
    /\ UNCHANGED <<builderVars, sessionVars, scoreVars, permuteVars, runs, made, multi_step>>

\* One round of "for filename in pbar".
StmFile ==
    /\ stm.pc = "files"
    /\ stm.i <= Len(stm.stm_paths)
    /\ LET filename == stm.stm_paths[stm.i]
           found == FindSplit(stm.split_info, 1, [split |-> "n", info |-> 0], filename)
           rows == [n \in 1 .. Len(KeptLines(filename)) |->
                       StmRow(filename, KeptLines(filename)[n])]
       IN  IF stm.conf.exclude.kind # "None" /\ re_search(stm.conf.exclude.val, filename)
           THEN stm' = [stm EXCEPT !.i = stm.i + 1]
           ELSE IF found.split = "n"
           THEN stm' = [stm EXCEPT !.i = stm.i + 1]
           ELSE stm' = [stm EXCEPT
                    !.i = stm.i + 1,
                    !.split_info[found.info].info = stm.split_info[found.info].info \o rows,
                    !.train_transcript_words =
                        IF found.split = "train" THEN stm.train_transcript_words \o rows
                        ELSE stm.train_transcript_words]
    /\ UNCHANGED <<builderVars, sessionVars, scoreVars, permuteVars, runs, made, multi_step>>

\* After the files: one sorted csv file per entry of split_info.
StmWrite ==
    /\ stm.pc = "files"
    /\ stm.i > Len(stm.stm_paths)
    /\ LET w == WriteCsv(stm.split_info, 1, [csv |-> <<>>, exited |-> FALSE])
       IN  stm' = [stm EXCEPT !.pc = IF w.exited THEN "exit" ELSE "done", !.csv = w.csv]
    /\ UNCHANGED <<builderVars, sessionVars, scoreVars, permuteVars, runs, made, multi_step>>

StmNext == StmStart \/ StmFile \/ StmWrite

StmSpec == Init /\ [][StmNext]_vars

\* ============================================================ properties
\* The calls of the last ScorerBuilder.score: those of the loop over the full
\* scorers come first, those of the loop over the partial scorers after them.
FullCalls == {j \in DOMAIN calls : j <= Len(full_scorers)}
PartialCalls == {j \in DOMAIN calls : j > Len(full_scorers)}

\* The names the builder registered, full scorers first.
RegisteredNames ==
    [j \in 1 .. (Len(full_scorers) + Len(partial_scorers)) |->
        IF j <= Len(full_scorers) THEN full_scorers[j][1]
        ELSE partial_scorers[j - Len(full_scorers)][1]]

\* lp plus weights[k] * rawScore[k] of the calls js, entry by entry.
Fused(lp, js) ==
    [i \in DOMAIN lp |-> [t \in Vocab |->
        lp[i][t] + SumOver([j \in js |-> weights[calls[j].name] * calls[j].score[i][t]], js)]]

\* The buffer right after call j of the last ScorerBuilder.score.
BufferAfter(j) == IF j < Len(calls) THEN calls[j + 1].before ELSE log_probs.val

\* The entry of a (row, token) table that the candidate of row i selects.
SelectedEntry(table, i) ==
    LET beam == Cardinality(DOMAIN sel.val[0])
        h == sel.val[i \div beam][i % beam] + (i \div beam) * beam * VocabSize
    IN  table[h \div VocabSize][h % VocabSize]

\* After permute_scorer_mem the memory of scorer k holds, at every row i, the
\* memory of the hypothesis that now occupies row i.
RowAligned(k) ==
    IF pre_memory[k].kind = "None" THEN memory[k].kind = "None"
    ELSE /\ memory[k].kind = "rows"
         /\ DOMAIN memory[k].state = Rows(BatchSize * beam_size)
         /\ \A i \in Rows(BatchSize * beam_size) :
               memory[k].state[i] =
                   IF k \in {"ctc", "kenlm"} THEN SelectedEntry(pre_memory[k].state, i)
                   ELSE pre_memory[k].state[index.val[i]]

\* C1 -- Row alignment: every permute_scorer_mem of a decoding run (reset, then
\* score and permute in turn) returns, and for every registered scorer, full or
\* partial, the memory at row i is then the memory of the hypothesis now at
\* row i: the pre-permute row index[i], or for ctc and kenlm the entry that
\* candidates[i] selects.
C1_RowAlignment ==
    index.kind = "tensor" =>
        /\ phase = "permuted"
        /\ \A k \in DOMAIN memory : RowAligned(k)

\* C2 -- Fusion additivity: the log_probs ScorerBuilder.score returns are the
\* input log_probs plus the sum over all registered scorers k, each called
\* once, of weights[k] * rawScore[k], entry by entry; a scorer whose weight is
\* 0 leaves every entry of the buffer as it found it.
C2_FusionAdditivity ==
    phase = "scored" =>
        /\ [j \in DOMAIN calls |-> calls[j].name] = RegisteredNames
        /\ log_probs.val = Fused(lp_in.val, DOMAIN calls)
        /\ \A j \in DOMAIN calls :
              weights[calls[j].name] = 0 => BufferAfter(j) = calls[j].before

\* A score call with full and partial scorers, one of them with weight 0 and a
\* raw score that is not 0, which changed the buffer.
C2_Witness ==
    /\ phase = "scored"
    /\ FullCalls # {}
    /\ PartialCalls # {}
    /\ \E j \in DOMAIN calls :
          /\ weights[calls[j].name] = 0
          /\ \E i \in DOMAIN calls[j].score : calls[j].score[i][0] # 0
    /\ \E j \in DOMAIN calls : weights[calls[j].name] \notin {0, WeightDen}
    /\ log_probs # lp_in

\* C3 -- Ordering inside ScorerBuilder.score: the full scorers are called
\* without candidates; the candidate set is a top-k of the input log_probs
\* plus the weighted scores of all full scorers, which is the buffer the first
\* partial scorer finds; every partial scorer is passed that same set.
C3_CandidateOrdering ==
    phase = "scored" =>
        /\ \A j \in FullCalls : calls[j].candidates = None
        /\ candidates.val \in TopK(Fused(lp_in.val, FullCalls),
                                   Cardinality(candidates.val[0]))
        /\ \A j \in PartialCalls :
              /\ calls[j].candidates = candidates
              /\ j = Len(full_scorers) + 1 => calls[j].before = Fused(lp_in.val, FullCalls)

\* A score call with a full scorer and two partial scorers whose candidates are
\* not a top-k of the input log_probs.
C3_Witness ==
    /\ phase = "scored"
    /\ FullCalls # {}
    /\ Cardinality(PartialCalls) >= 2
    /\ candidates.val \notin TopK(lp_in.val, Cardinality(candidates.val[0]))

C5_RoundedSize ==
    phase = "scored" =>
        \A i \in DOMAIN candidates.val :
            /\ Cardinality(candidates.val[i])
                   = RoundHalfEven(beam_size * scorer_beam_scale[1], scorer_beam_scale[2])
            /\ candidates.val[i] \subseteq Vocab

\* C5 (amended) -- the candidate set of a score call that returns has exactly
\* int(b * s) entries per row, the product truncated toward zero, each a
\* vocabulary index in [0, vocab_size), and one row for every hypothesis.
C5_TruncatedSize ==
    phase = "scored" =>
        /\ DOMAIN candidates.val = Rows(BatchSize * beam_size)
        /\ \A i \in DOMAIN candidates.val :
              /\ Cardinality(candidates.val[i])
                     = (beam_size * scorer_beam_scale[1]) \div scorer_beam_scale[2]
              /\ candidates.val[i] \subseteq Vocab

\* A score call where b * s is not an integer: int and round differ.
C5_Witness ==
    /\ phase = "scored"
    /\ (beam_size * scorer_beam_scale[1]) % scorer_beam_scale[2] # 0
    /\ \A i \in DOMAIN candidates.val : Cardinality(candidates.val[i]) = 1

\* C6 -- The docstrings' count: the candidates handed to each partial scorer
\* are int(beam_size * scorer_beam_scale) per row, the product truncated
\* toward zero; that is 7 for beam_size 5 and the default scale 1.5.
C6_DocumentedCount ==
    /\ NumCandidates(5, <<3, 2>>) = 7
    /\ phase = "scored" =>
          \A j \in PartialCalls : \A i \in DOMAIN calls[j].candidates.val :
              scorer_beam_scale[2] * Cardinality(calls[j].candidates.val[i])
                  \in (beam_size * scorer_beam_scale[1] - scorer_beam_scale[2] + 1)
                          .. (beam_size * scorer_beam_scale[1])

\* A partial scorer called at the default scale 1.5 with a beam of 1: one
\* candidate per row.
C6_Witness ==
    /\ phase = "scored"
    /\ scorer_beam_scale = <<3, 2>>
    /\ beam_size = 1
    /\ \E j \in PartialCalls :
          \A i \in DOMAIN calls[j].candidates.val :
              Cardinality(calls[j].candidates.val[i]) = 1

\* C7 -- permute_scorer_mem calls permute_mem of the registered scorers in
\* order, full scorers first, and passes candidates to a full scorer named ctc
\* or kenlm, index to every other full scorer, and candidates to every partial
\* scorer; nothing else is passed.
C7_PermuteArguments ==
    index.kind = "tensor" =>
        /\ Len(permutes) <= Len(RegisteredNames)
        /\ \A j \in DOMAIN permutes :
              /\ permutes[j].name = RegisteredNames[j]
              /\ permutes[j].full = (j <= Len(full_scorers))
              /\ permutes[j].arg =
                     IF permutes[j].full /\ permutes[j].name \notin {"ctc", "kenlm"}
                     THEN index ELSE sel

\* A permute that handed index to a full scorer and candidates to a partial one.
C7_Witness ==
    /\ phase = "permuted"
    /\ \E j \in DOMAIN permutes : permutes[j].full /\ permutes[j].arg = index
    /\ \E j \in DOMAIN permutes : ~permutes[j].full /\ permutes[j].arg = sel

\* The ScorerBuilder(...) call that led to the current state, if one was made.
Attempted == phase \in {"built", "failed"}

HasWeight(k) == k \in DOMAIN config.weights

\* C8 -- A ScorerBuilder whose ctc weight is exactly 1.0 and whose coverage
\* weight is not zero, positive or negative, is not constructed.
C8_PureCtcNoCoverage ==
    (/\ Attempted
     /\ HasWeight("ctc") /\ HasWeight("coverage")
     /\ config.weights["ctc"] = WeightDen
     /\ config.weights["coverage"] # 0) => phase = "failed"

\* C9 -- A ScorerBuilder whose ctc weight is outside [0, 1] is not
\* constructed; every constructed builder has 0 <= weights[ctc] <= 1.
C9_CtcWeightRange ==
    /\ (/\ Attempted
        /\ HasWeight("ctc")
        /\ (config.weights["ctc"] < 0 \/ config.weights["ctc"] > WeightDen)) => phase = "failed"
    /\ phase = "built" => (0 <= weights["ctc"] /\ weights["ctc"] <= WeightDen)

\* A construction that passed the matching assertion and failed on a ctc
\* weight above 1.
C9_Witness ==
    /\ phase = "failed"
    /\ error = "ValueError: ctc_weight range"
    /\ HasWeight("ctc")
    /\ config.weights["ctc"] > WeightDen

\* C10 -- A ScorerBuilder with ctc weight exactly 1.0 is not constructed
\* unless a CTC scorer is among its full scorers: not when there is none, and
\* not when it is a partial scorer only.
C10_PureCtcIsFull ==
    (/\ Attempted
     /\ HasWeight("ctc")
     /\ config.weights["ctc"] = WeightDen
     /\ \A j \in DOMAIN config.full_scorers : config.full_scorers[j].cls # "CTCScorer")
        => phase = "failed"

\* A construction with ctc weight 1.0 and the CTC scorer as a partial scorer
\* that failed for that reason.
C10_Witness ==
    /\ phase = "failed"
    /\ error = "ValueError: ctc not a full scorer"
    /\ \E j \in DOMAIN config.partial_scorers : config.partial_scorers[j].cls = "CTCScorer"

\* The scorer instances handed to the constructor, full and partial.
Supplied ==
    {config.full_scorers[j] : j \in DOMAIN config.full_scorers}
        \cup {config.partial_scorers[j] : j \in DOMAIN config.partial_scorers}

\* The canonical names of the scorer classes of the module.
KnownNames == {"ctc", "rnnlm", "transformerlm", "kenlm", "coverage", "length"}

\* C11 -- A ScorerBuilder is not constructed when a supplied scorer instance,
\* full or partial, has no entry in weights under its canonical name; no such
\* scorer gets the default weight.
C11_EveryScorerWeighted ==
    (/\ Attempted
     /\ \E impl \in Supplied : ~HasWeight(CanonicalName(impl.cls))) => phase = "failed"

\* C12 -- A ScorerBuilder is not constructed when weights has a key that is
\* not the canonical name of a scorer class; the weight table of every
\* constructed builder has exactly the known scorer names as its keys.
C12_KnownKeysOnly ==
    /\ (Attempted /\ DOMAIN config.weights \ KnownNames # {}) => phase = "failed"
    /\ phase = "built" => DOMAIN weights = KnownNames

\* A construction that passed the matching assertion and failed on a key that
\* names no scorer class.
C12_Witness ==
    /\ phase = "failed"
    /\ error = "ValueError: keys of weights"
    /\ HasWeight("mylm")

\* C13 -- In a constructed builder every known scorer name the caller did not
\* list in weights has weight 0, and every name the caller listed has the
\* caller's value.
C13_DefaultZero ==
    phase = "built" =>
        \A k \in KnownNames :
            weights[k] = IF HasWeight(k) THEN config.weights[k] ELSE 0

\* A constructed builder with a listed weight that is not 0 and an unlisted name.
C13_Witness ==
    /\ phase = "built"
    /\ \E k \in KnownNames : HasWeight(k) /\ config.weights[k] # 0
    /\ \E k \in KnownNames : ~HasWeight(k)

\* C14 -- Every weight of a constructed ScorerBuilder is non-negative: a
\* negative weight for any scorer is rejected at construction.
C14_NonNegativeWeights ==
    /\ (Attempted /\ \E k \in DOMAIN config.weights : config.weights[k] < 0) => phase = "failed"
    /\ phase = "built" => \A k \in DOMAIN weights : weights[k] >= 0

\* C15 -- reset_scorer_mem calls reset_mem on every scorer instance that was
\* supplied at construction, full and partial, and the dictionary it returns
\* has an entry for each of them (under its canonical name).
C15_ResetsEverySupplied ==
    phase = "reset" =>
        \A impl \in Supplied :
            /\ \E j \in DOMAIN resets : resets[j] = impl.id
            /\ CanonicalName(impl.cls) \in DOMAIN memory

\* A score call of a builder with one full scorer and one partial scorer.
OneFullOnePartial ==
    /\ phase = "scored"
    /\ Len(full_scorers) = 1
    /\ Len(partial_scorers) = 1
    /\ Len(calls) = 2

\* C19 (as stated) -- End-to-end fusion with one full scorer of weight 1.0 and
\* one partial scorer of weight 0.5: at the candidate positions of a row the
\* output is log_probs + 1.0 * full + 0.5 * partial, at the other positions it
\* is log_probs + 1.0 * full only.
C19_PartialAddsNothingOutside ==
    (/\ OneFullOnePartial
     /\ weights[calls[1].name] = WeightDen
     /\ 2 * weights[calls[2].name] = WeightDen) =>
        \A i \in DOMAIN candidates.val, t \in Vocab :
            log_probs.val[i][t] =
                IF t \in candidates.val[i]
                THEN lp_in.val[i][t] + WeightDen * calls[1].score[i][t]
                         + weights[calls[2].name] * calls[2].score[i][t]
                ELSE lp_in.val[i][t] + WeightDen * calls[1].score[i][t]

\* C19 (amended) -- with one full scorer and the n-gram scorer as the one
\* partial scorer, the output at the candidate positions of a row is
\* log_probs + w_full * full + w_partial * partial, and at every other
\* position it is log_probs + w_full * full + w_partial * sentinel: the partial
\* scorer adds its weighted sentinel there, not nothing.
C19_SentinelOutside ==
    (OneFullOnePartial /\ calls[2].name = "kenlm") =>
        \A i \in DOMAIN candidates.val, t \in Vocab :
            log_probs.val[i][t] =
                lp_in.val[i][t] + weights[calls[1].name] * calls[1].score[i][t]
                    + weights["kenlm"] * (IF t \in candidates.val[i]
                                          THEN calls[2].score[i][t] ELSE minus_inf)

\* Full weight 1.0, n-gram partial weight 0.5 (at WeightDen = 2), two candidates
\* in every row, both scored, and a position outside them.
C19_Witness ==
    /\ OneFullOnePartial
    /\ calls[2].name = "kenlm"
    /\ weights[calls[1].name] = WeightDen
    /\ weights["kenlm"] = 1
    /\ \A i \in DOMAIN candidates.val :
          /\ Cardinality(candidates.val[i]) = 2
          /\ Vocab \ candidates.val[i] # {}
          /\ \A t \in candidates.val[i] : calls[2].score[i][t] # minus_inf

\* The scorer name and the memories of a permute_mem run.
GatherName == full_scorers[1][1]
GatherIn == pre_memory[GatherName]
GatherOut == memory[GatherName]

\* C17 -- permute_mem of the RNN-LM, transformer-LM, coverage and n-gram
\* scorers is a pure gather: the output has one slot per index entry, each the
\* copy of the one input slot the index names (for the n-gram scorer the state
\* and the flag of one (row, id) pair, the id being the index modulo the
\* vocabulary size); the memory passed in is the caller's, and the instance's
\* fields are as before.
C17_PureGather ==
    phase = "permuted" =>
        /\ fields[1] = GatherFields
        /\ permutes[1].memory = GatherIn
        /\ IF GatherName = "kenlm"
           THEN /\ DOMAIN GatherOut.state = AddrRows
                /\ \A i \in AddrRows :
                      \E r \in AddrRows :
                          LET t == index.val[i \div AddrBeam][i % AddrBeam] % AddrVocab
                          IN  /\ GatherOut.state[i] = GatherIn.state[r][t]
                              /\ GatherOut.scoring_table[i] = GatherIn.scoring_table[r][t]
           ELSE /\ DOMAIN GatherOut.state = DOMAIN index.val
                /\ \A i \in DOMAIN index.val :
                      GatherOut.state[i] = GatherIn.state[index.val[i]]

\* A gather by an index that names one input row twice and another not at all.
C17_Witness ==
    /\ phase = "permuted"
    /\ GatherName # "kenlm"
    /\ \E i, j \in DOMAIN index.val : i # j /\ index.val[i] = index.val[j]
    /\ \E r \in AddrRows : \A i \in DOMAIN index.val : index.val[i] # r
    /\ \E i \in DOMAIN index.val : index.val[i] # i

\* C18 (as stated) -- KenLMScorer.permute_mem selects, for batch element b and
\* beam slot k, the element of the flattened state and flag arrays at position
\* (index[b][k] + b * beam_size) * vocab_size.
C18_SumScaledAddress ==
    (phase = "permuted" /\ GatherName = "kenlm") =>
        \A b \in 0 .. (AddrBatch - 1), k \in 0 .. (AddrBeam - 1) :
            LET p == (index.val[b][k] + b * AddrBeam) * AddrVocab
            IN  /\ p < AddrBatch * AddrBeam * AddrVocab
                /\ GatherOut.state[b * AddrBeam + k]
                       = GatherIn.state[p \div AddrVocab][p % AddrVocab]
                /\ GatherOut.scoring_table[b * AddrBeam + k]
                       = GatherIn.scoring_table[p \div AddrVocab][p % AddrVocab]

\* C18 (amended) -- ... at position index[b][k] + b * beam_size * vocab_size:
\* only the batch offset is scaled by beam_size * vocab_size.
C18_OffsetScaledAddress ==
    (phase = "permuted" /\ GatherName = "kenlm") =>
        \A b \in 0 .. (AddrBatch - 1), k \in 0 .. (AddrBeam - 1) :
            LET p == index.val[b][k] + b * AddrBeam * AddrVocab
            IN  /\ p < AddrBatch * AddrBeam * AddrVocab
                /\ GatherOut.state[b * AddrBeam + k]
                       = GatherIn.state[p \div AddrVocab][p % AddrVocab]
                /\ GatherOut.scoring_table[b * AddrBeam + k]
                       = GatherIn.scoring_table[p \div AddrVocab][p % AddrVocab]

\* An n-gram permute at batch 2, beam 3, vocabulary 5 whose index of the second
\* batch element names a slot other than the first of its block.
C18_Witness ==
    /\ phase = "permuted"
    /\ GatherName = "kenlm"
    /\ Cardinality(DOMAIN index.val) = 2
    /\ Cardinality(DOMAIN index.val[0]) = 3
    /\ Cardinality(DOMAIN GatherIn.state[0]) = 5
    /\ index.val[1][2] = 7
    /\ GatherOut.state[5] = <<4, 2>>

\* ---------------------------------------------------------------- C16
\* The impl.score calls of the last decoding step of either searcher.
SharedCalls == UNION {Range(runs[s].calls) : s \in Searchers}

SameArguments(c, d) ==
    /\ c.name = d.name
    /\ c.inp_tokens = d.inp_tokens
    /\ c.memory = d.memory
    /\ c.candidates = d.candidates
    /\ c.attn = d.attn

SameResult(c, d) == c.score = d.score /\ c.new_memory = d.new_memory

\* The instance attributes the score of the scorer registered under c.name reads.
ReadFields(c) ==
    IF c.name = "coverage" THEN <<c.self.time_step>>
    ELSE IF c.name = "ctc" THEN <<c.self.ctc_score>>
    ELSE <<>>

\* C16 as stated: two score calls of a scorer with equal tokens, memory,
\* candidates and attention return equal scores and equal new memory, whatever
\* calls preceded them.
C16_ArgumentsOnly ==
    \A c \in SharedCalls, d \in SharedCalls :
        SameArguments(c, d) => SameResult(c, d)

\* C16 as the code has it: two score calls of a scorer with equal arguments
\* return equal scores and equal new memory when, for the coverage scorer, the
\* instance's time_step and, for the CTC scorer, the instance's ctc_score are
\* equal before the calls too; the other scorers read no attribute that a call
\* writes.
C16_ArgumentsAndReadFields ==
    \A c \in SharedCalls, d \in SharedCalls :
        SameArguments(c, d) /\ ReadFields(c) = ReadFields(d) => SameResult(c, d)

\* Both searchers have made a coverage call with equal arguments at equal
\* time_step with a penalty to divide, and a CTC call with equal arguments on
\* the same ctc_score.
C16_Witness ==
    \E c \in Range(runs["A"].calls), d \in Range(runs["B"].calls),
       e \in Range(runs["A"].calls), f \in Range(runs["B"].calls) :
        /\ c.name = "coverage"
        /\ SameArguments(c, d)
        /\ c.self.time_step = d.self.time_step
        /\ c.score[0][0] # 0
        /\ e.name = "ctc"
        /\ SameArguments(e, f)
        /\ e.self.ctc_score = f.self.ctc_score

\* ---------------------------------------------------------------- C20
\* The score of the scorer registered under k in the calls cs.
ScoreOf(cs, k) == cs[CHOOSE j \in DOMAIN cs : cs[j].name = k].score

\* Searcher s has a result that the same searcher decoding alone has not.
Differs(s) ==
    LET me == runs[s]
    IN  \/ me.pc # me.alone.pc
        \/ me.memory # me.alone.memory
        \/ Len(me.calls) # Len(me.alone.calls)
        \/ \E j \in DOMAIN me.calls :
              j \in DOMAIN me.alone.calls /\ ~SameResult(me.calls[j], me.alone.calls[j])

\* C20: when the calls of two searchers interleave on the same instances, a
\* searcher's score or permute result differs from its result alone only
\* after one of its calls found instance attributes (time_step, ctc_score,
\* batch_index) other than alone, and that only after a call of the other
\* searcher came between its own calls; such an interleaving exists (C20_Witness).
C20_InterferenceThroughFields ==
    \A s \in Searchers :
        /\ Differs(s) => runs[s].dirty
        /\ runs[s].dirty => runs[s].interfered

\* A searcher whose coverage score, CTC score and permuted n-gram memory all
\* differ from what it gets alone, no call having raised.
C20_Witness ==
    \E s \in Searchers :
        LET me == runs[s]
        IN  /\ me.pc = "permuted"
            /\ me.alone.pc = "permuted"
            /\ me.interfered
            /\ ScoreOf(me.calls, "coverage") # ScoreOf(me.alone.calls, "coverage")
            /\ ScoreOf(me.calls, "ctc") # ScoreOf(me.alone.calls, "ctc")
            /\ me.memory["kenlm"] # me.alone.memory["kenlm"]
            /\ me.memory["rnnlm"] = me.alone.memory["rnnlm"]

\* ---------------------------------------------------------------- C21
\* The classes of the supplied instances with id i.
ClassesOf(i) ==
    {full_scorers[j][2].cls : j \in {n \in 1 .. Len(full_scorers) : full_scorers[n][2].id = i}}
    \cup {partial_scorers[j][2].cls :
             j \in {n \in 1 .. Len(partial_scorers) : partial_scorers[n][2].id = i}}

\* C21 as stated: no call of reset_mem, score or permute_mem writes an
\* attribute of a scorer instance.
C21_NoFieldWritten == [][fields' = fields]_vars

\* C21 as the code has it: permute_mem writes no attribute of any instance;
\* reset_mem and score write exactly these: time_step of a CoverageScorer (0 by
\* reset_mem, counted up by score), ctc_score of a CTCScorer (by reset_mem, from
\* x) and batch_index of a KenLMScorer (by reset_mem, from x.size(0)). The
\* RNN-LM, transformer-LM and length scorers write none.
C21_FieldsWritten ==
    [][\A i \in InstanceIds :
        /\ fields'[i].vocab_size = fields[i].vocab_size
        /\ fields'[i].time_step # fields[i].time_step =>
              /\ "CoverageScorer" \in ClassesOf(i)
              /\ \/ sessions' = sessions + 1 /\ fields'[i].time_step = 0
                 \/ step' = step + 1 /\ fields'[i].time_step > fields[i].time_step
        /\ fields'[i].ctc_score # fields[i].ctc_score =>
              /\ "CTCScorer" \in ClassesOf(i)
              /\ sessions' = sessions + 1
              /\ fields'[i].ctc_score = enc'
        /\ fields'[i].batch_index # fields[i].batch_index =>
              /\ "KenLMScorer" \in ClassesOf(i)
              /\ sessions' = sessions + 1
              /\ fields'[i].batch_index = BatchOf(enc')
        /\ permutes' # <<>> => fields'[i] = fields[i]]_vars

\* A decoding step has been scored and permuted with a coverage scorer whose
\* time_step counts it and a CTC scorer holding the batch's ctc_score.
C21_Witness ==
    /\ phase = "permuted"
    /\ \E i \in InstanceIds, j \in InstanceIds :
        /\ "CoverageScorer" \in ClassesOf(i)
        /\ fields[i].time_step = step
        /\ step > 0
        /\ "CTCScorer" \in ClassesOf(j)
        /\ fields[j].ctc_score = enc

\* ---------------------------------------------------------------- C22
\* C22: in a decoding session of an accepted builder, every supplied scorer
\* instance has its score invoked exactly once by each ScorerBuilder.score
\* call and its memory re-indexed exactly once by each permute_scorer_mem call.
C22_OncePerStep ==
    /\ phase = "scored" =>
          \A impl \in Supplied :
              Cardinality({j \in DOMAIN calls : calls[j].id = impl.id}) = 1
    /\ phase = "permuted" =>
          \A impl \in Supplied :
              Cardinality({j \in DOMAIN permutes : permutes[j].id = impl.id}) = 1

\* ---------------------------------------------------------------- C23
\* C23: ScorerBuilder.score never raises on the memory of an accepted
\* builder, whatever the beam size and the vocabulary size, with or without a
\* partial scorer: the candidate count never exceeds the vocabulary size.
C23_ScoreNeverRaises ==
    ~(phase = "raised" /\ error = "RuntimeError: selected index k out of range")

C25_LengthConstant ==
    /\ \A j \in DOMAIN calls :
          calls[j].name = "length" =>
              /\ \A i \in DOMAIN calls[j].score : \A t \in Vocab : calls[j].score[i][t] = ONE
              /\ DOMAIN calls[j].score = DOMAIN hyps
              /\ calls[j].new_memory = None
    /\ phase \in {"reset", "scored", "permuted"} /\ "length" \in Range(RegisteredNames) =>
          memory["length"] = None

\* A length scorer scored on candidates at a later step than the first, and
\* a permuted memory that holds its entry.
C25_Witness ==
    /\ phase = "permuted"
    /\ step > 1
    /\ "length" \in DOMAIN memory
    /\ \E j \in DOMAIN calls :
          /\ calls[j].name = "length"
          /\ calls[j].candidates.kind = "tensor"
          /\ \E i \in DOMAIN hyps : calls[j].inp_tokens[i] # BosIndex

\* ---------------------------------------------------------------- C26
TransformerIsFull ==
    \E j \in 1 .. Len(full_scorers) :
        full_scorers[j][1] = "transformerlm" /\ full_scorers[j][2].cls = "TransformerLMScorer"

\* C26: with the transformer LM as a full scorer, after k score calls since
\* the reset (permutes between them) the memory of every row is the sequence
\* of the k input tokens along the row's lineage, in order: a score call makes
\* every row one token longer, a permute leaves the length as it is.
C26_TransformerHistory ==
    TransformerIsFull =>
        /\ phase = "reset" => memory["transformerlm"] = None
        /\ phase = "scored" =>
              /\ memory["transformerlm"].kind = "rows"
              /\ DOMAIN memory["transformerlm"].state = DOMAIN hyps
              /\ \A i \in DOMAIN hyps :
                    /\ memory["transformerlm"].state[i] = hyps[i]
                    /\ Len(memory["transformerlm"].state[i]) = step
        /\ phase = "permuted" =>
              /\ DOMAIN memory["transformerlm"].state = DOMAIN hyps
              /\ \A i \in DOMAIN hyps :
                    /\ memory["transformerlm"].state[i] = SubSeq(hyps[i], 1, step)
                    /\ Len(hyps[i]) = step + 1

\* Rows of different histories after the permute of a later step, some row
\* having taken another row's place.
C26_Witness ==
    /\ TransformerIsFull
    /\ phase = "permuted"
    /\ step > 1
    /\ \E i \in DOMAIN hyps, j \in DOMAIN hyps :
          memory["transformerlm"].state[i] # memory["transformerlm"].state[j]
    /\ \E i \in DOMAIN index.val : index.val[i] # i

\* ---------------------------------------------------------------- C27
\* The KenLMScorer.score calls of the last ScorerBuilder.score.
KenLMCalls == {j \in DOMAIN calls : calls[j].name = "kenlm"}

\* The flag of row i in the memory handed to call j (1 for every row when the
\* memory is None).
FlagIn(j, i) == IF calls[j].memory.kind = "None" THEN 1 ELSE calls[j].memory.scoring_table[i]

\* C27: KenLMScorer.score skips every row whose flag is -1: no successor
\* state is asked of the language model for the row, every score of the row
\* is the sentinel and every new flag of the row is -1.
C27_DeadRowsSkipped ==
    \A j \in KenLMCalls : \A i \in DOMAIN calls[j].score :
        FlagIn(j, i) = -1 =>
            \A t \in Vocab :
                /\ calls[j].score[i][t] = minus_inf
                /\ calls[j].new_memory.scoring_table[i][t] = -1
                /\ calls[j].new_memory.state[i][t] = ZeroObj

\* A call on a memory with a dead row and a live row.
C27_Witness ==
    \E j \in KenLMCalls : \E i \in DOMAIN calls[j].score, l \in DOMAIN calls[j].score :
        /\ FlagIn(j, i) = -1
        /\ FlagIn(j, l) = 1
        /\ \E t \in Vocab : calls[j].score[l][t] # minus_inf

\* ---------------------------------------------------------------- C28
\* The state of row i in the memory handed to call j.
StateIn(j, i) ==
    IF calls[j].memory.kind = "None" THEN KenLMNewState ELSE calls[j].memory.state[i]

\* The candidate set of row i in call j: the vocabulary when candidates is None.
CandidatesIn(j, i) ==
    IF calls[j].candidates.kind = "None" THEN Vocab ELSE calls[j].candidates.val[i]

\* C28: after KenLMScorer.score every live row i holds, for every token t of
\* its candidate set, the successor state of its own state by t, the flag 1
\* and the model's score, and for every other token the flag -1 and the
\* sentinel; the permute_mem that follows leaves one state and one flag per row.
C28_StateFanOut ==
    /\ \A j \in KenLMCalls : \A i \in DOMAIN calls[j].score :
          FlagIn(j, i) # -1 =>
              \A t \in Vocab :
                  IF t \in CandidatesIn(j, i)
                  THEN /\ calls[j].new_memory.state[i][t] =
                              KenLMOutState(StateIn(j, i), token_list[t])
                       /\ calls[j].new_memory.scoring_table[i][t] = 1
                       /\ calls[j].score[i][t] = LN10 * KenLMBaseScore(StateIn(j, i), token_list[t])
                  ELSE /\ calls[j].new_memory.scoring_table[i][t] = -1
                       /\ calls[j].score[i][t] = minus_inf
    /\ phase = "permuted" /\ "kenlm" \in DOMAIN memory =>
          /\ pre_memory["kenlm"].kind = "table"
          /\ memory["kenlm"].kind = "rows"
          /\ DOMAIN memory["kenlm"].state = DOMAIN hyps
          /\ DOMAIN memory["kenlm"].scoring_table = DOMAIN hyps
          /\ \A i \in DOMAIN hyps :
                \E r \in DOMAIN hyps, t \in Vocab :
                    /\ memory["kenlm"].state[i] = pre_memory["kenlm"].state[r][t]
                    /\ memory["kenlm"].scoring_table[i] = pre_memory["kenlm"].scoring_table[r][t]

\* A permuted n-gram memory that came from a table scored on candidates at a
\* later step than the first, with a token outside the candidates.
C28_Witness ==
    /\ phase = "permuted"
    /\ step > 1
    /\ "kenlm" \in DOMAIN memory
    /\ \E j \in KenLMCalls : \E i \in DOMAIN calls[j].score :
          /\ FlagIn(j, i) # -1
          /\ calls[j].candidates.kind = "tensor"
          /\ StateIn(j, i) # KenLMNewState
          /\ \E t \in Vocab : t \notin CandidatesIn(j, i)

\* ---------------------------------------------------------------- C29
\* The token the searcher kept for slot i, and the table of the n-gram scorer
\* before the permute.
KeptToken(i) == sel.val[i \div beam_size][i % beam_size] % VocabSize

KenLMPermuted == phase = "permuted" /\ "kenlm" \in DOMAIN memory

\* C29 as stated: after KenLMScorer.permute_mem every slot has the initial
\* flag 1, so no slot carries a -1 into the next score call.
C29_FlagsReset ==
    KenLMPermuted => \A i \in DOMAIN hyps : memory["kenlm"].scoring_table[i] = 1

\* C29 as the code has it: after KenLMScorer.permute_mem every slot carries the
\* flag (and the state) of the entry selected for it, the one of its parent
\* row and kept token: 1 when the preceding score call scored that entry, -1
\* when it did not.
C29_FlagsInherited ==
    KenLMPermuted =>
        \A i \in DOMAIN hyps :
            /\ memory["kenlm"].scoring_table[i] =
                  pre_memory["kenlm"].scoring_table[index.val[i]][KeptToken(i)]
            /\ memory["kenlm"].state[i] = pre_memory["kenlm"].state[index.val[i]][KeptToken(i)]
            /\ memory["kenlm"].scoring_table[i] = -1 <=>
                  \E j \in KenLMCalls :
                      \/ FlagIn(j, index.val[i]) = -1
                      \/ KeptToken(i) \notin CandidatesIn(j, index.val[i])

\* A permuted n-gram memory with a slot of flag -1 next to a slot of flag 1.
C29_Witness ==
    /\ KenLMPermuted
    /\ \E i \in DOMAIN hyps, l \in DOMAIN hyps :
          /\ memory["kenlm"].scoring_table[i] = -1
          /\ memory["kenlm"].scoring_table[l] = 1
          /\ index.val[i] # i

\* ---------------------------------------------------------------- C30
CoverageCalls == {j \in DOMAIN calls : calls[j].name = "coverage"}

\* How many impl.score calls one ScorerBuilder.score makes on instance i.
CallsPerStep(i) ==
    Cardinality({n \in 1 .. Len(full_scorers) : full_scorers[n][2].id = i})
        + Cardinality({n \in 1 .. Len(partial_scorers) : partial_scorers[n][2].id = i})

\* The score calls made on the instance of call j since its last reset_mem,
\* call j included: those of the earlier steps of the session and those of
\* this step up to j.
CallsSinceReset(j) ==
    (step - 1) * CallsPerStep(calls[j].id)
        + Cardinality({l \in 1 .. j : calls[l].id = calls[j].id})

\* sum over the source positions of max(coverage, threshold), minus
\* source_length * threshold, for row i of the coverage call j returns.
PenaltyOf(j, i) ==
    SumOver([p \in Source |-> Max(calls[j].new_memory.state[i][p], threshold)], Source)
        - SrcLen * threshold

\* C30: CoverageScorer.score returns for each row one value at every
\* vocabulary id: minus the row's penalty divided by the number of score calls
\* on the instance since its last reset_mem; the value is never positive and
\* is 0 exactly when no position's coverage exceeds the threshold.
C30_CoveragePenalty ==
    \A j \in CoverageCalls : \A i \in DOMAIN calls[j].score :
        /\ \A t \in Vocab :
              calls[j].score[i][t] = -(PenaltyOf(j, i) \div CallsSinceReset(j))
        /\ calls[j].score[i][0] <= 0
        /\ calls[j].score[i][0] = 0 <=>
              \A p \in Source : calls[j].new_memory.state[i][p] <= threshold

\* A coverage call later than the first since the reset, on candidates or
\* not, with a penalty to divide.
C30_Witness ==
    \E j \in CoverageCalls : \E i \in DOMAIN calls[j].score :
        /\ CallsSinceReset(j) > 1
        /\ calls[j].score[i][0] < 0
        /\ sessions > 1

\* ---------------------------------------------------------------- C31
CoverageIsFull ==
    /\ "coverage" \in DictKeys(full_scorers)
    /\ "coverage" \notin DictKeys(partial_scorers)

\* The attention vectors of the steps made so far along the lineage of row i, summed.
LineageSum(i) ==
    [p \in Source |->
        SumOver([n \in 1 .. step |-> AttnOf(enc, SubSeq(hyps[i], 1, n))[p]], 1 .. step)]

\* The sum of a 3-D attention over its step dimension, for row i.
StepSum(attn, i) ==
    [p \in Source |-> SumOver([n \in DOMAIN attn[i] |-> attn[i][n][p]], DOMAIN attn[i])]

\* C31: with CoverageScorer as a full scorer, after k score/permute steps since
\* the reset the coverage of every row is the sum of the k attention vectors
\* along the row's lineage; with a 3-D attention the coverage a score call
\* returns is the sum of the attention it was given over the steps, whatever
\* coverage came in.
C31_CoverageAccumulates ==
    (phase \in {"scored", "permuted"} /\ CoverageIsFull) =>
        /\ memory["coverage"].kind = "rows"
        /\ \A i \in DOMAIN hyps :
              memory["coverage"].state[i] = LineageSum(i)
        /\ (multi_step /\ phase = "scored") =>
              \A j \in CoverageCalls : \A i \in DOMAIN hyps :
                  calls[j].new_memory.state[i] = StepSum(calls[j].attn, i)

\* A second step of a transformer session: the incoming coverage is not zero
\* and two rows have covered the source differently.
C31_Witness ==
    /\ phase = "scored" /\ CoverageIsFull /\ multi_step /\ step = 2
    /\ \E j \in CoverageCalls :
          /\ calls[j].memory.kind = "rows"
          /\ \E i \in DOMAIN hyps, p \in Source : calls[j].memory.state[i][p] > 0
    /\ \E i, l \in DOMAIN hyps :
          memory["coverage"].state[i] # memory["coverage"].state[l]

\* ---------------------------------------------------------------- C32
\* C32: a ScorerBuilder.score that returns has left the fused values in the
\* log_probs tensor the caller handed in and returns that very tensor, while
\* the memory dict the caller handed in is as it was before the call (the
\* updated memories come back in another dict).
C32_AccumulatesInPlace ==
    [][phase' = "scored" =>
          /\ passed'.log_probs.val = Fused(lp_in.val, DOMAIN calls)'
          /\ passed'.returned = "argument"
          /\ passed'.log_probs = log_probs'
          /\ passed'.memory = memory]_vars

\* A call whose scorers changed the buffer and every memory.
C32_Witness ==
    /\ phase = "scored" /\ step = 2
    /\ passed.log_probs # lp_in
    /\ \A k \in DOMAIN memory : memory[k] # passed.memory[k]
    /\ Len(partial_scorers) > 0

\* ---------------------------------------------------------------- C33
\* C33: through a session the memory dict has exactly the names of the
\* registered full and partial scorers as keys, as reset_scorer_mem returns it,
\* as every ScorerBuilder.score returns it and as every permute_scorer_mem
\* returns it; every memory[k] that ScorerBuilder.score reads is there.
C33_MemoryKeys ==
    /\ phase \in {"reset", "scored", "permuted"} => DOMAIN memory = Range(RegisteredNames)
    /\ phase = "scored" =>
          /\ DOMAIN passed.memory = Range(RegisteredNames)
          /\ \A j \in DOMAIN calls : calls[j].name \in DOMAIN passed.memory
    /\ phase = "permuted" =>
          /\ DOMAIN pre_memory = Range(RegisteredNames)
          /\ \A j \in DOMAIN permutes : permutes[j].name \in DOMAIN pre_memory

\* The second session of a builder with full and partial scorers, permuted twice.
C33_Witness ==
    /\ phase = "permuted" /\ step = 2 /\ sessions = 2
    /\ Len(full_scorers) > 0 /\ Len(partial_scorers) > 0
    /\ Cardinality(DOMAIN memory) > 1

\* ---------------------------------------------------------------- C34
\* The rows of the n-gram memory that carry the flag -1 into a score call.
DeadRows == {i \in DOMAIN hyps : memory["kenlm"].scoring_table[i] = -1}

\* C34: a row of KenLMScorer that has the flag -1 after a permute stays dead
\* along its lineage: the next score gives it only sentinel scores and only
\* flags -1, and the next permute gives the flag -1 to every row selected from
\* it; a row comes out of a permute dead exactly when its parent went into the
\* score dead or the token kept for it was not among its parent's candidates.
C34_DeadRowsAbsorbing ==
    [][/\ (phase = "permuted" /\ phase' = "scored" /\ "kenlm" \in DOMAIN memory) =>
             \A i \in DeadRows : \A j \in KenLMCalls' : \A t \in Vocab :
                 /\ calls'[j].score[i][t] = minus_inf
                 /\ memory'["kenlm"].scoring_table[i][t] = -1
       /\ (phase = "scored" /\ phase' = "permuted" /\ "kenlm" \in DOMAIN memory) =>
             \A i \in DOMAIN hyps' :
                 LET parent == index'.val[i]
                     kept == KeptToken(i)'
                     parentDead == \E j \in KenLMCalls : FlagIn(j, parent) = -1
                     outside == \E j \in KenLMCalls : kept \notin CandidatesIn(j, parent)
                 IN  /\ parentDead => memory'["kenlm"].scoring_table[i] = -1
                     /\ memory'["kenlm"].scoring_table[i] = -1 <=> (parentDead \/ outside)
      ]_vars

\* After the second permute: a row dead because its parent was dead although
\* its token was among the candidates, next to a row that is alive.
C34_Witness ==
    /\ KenLMPermuted /\ step = 2
    /\ \E i \in DOMAIN hyps : \E j \in KenLMCalls :
          /\ memory["kenlm"].scoring_table[i] = -1
          /\ FlagIn(j, index.val[i]) = -1
          /\ KeptToken(i) \in CandidatesIn(j, index.val[i])
    /\ \E l \in DOMAIN hyps : memory["kenlm"].scoring_table[l] = 1

\* ---------------------------------------------------------------- C35
\* The flattened positions of batch element b: its beam_size * vocab_size entries.
AddrBlock(b) == (b * AddrBeam * AddrVocab) .. ((b + 1) * AddrBeam * AddrVocab - 1)

\* C35: for every batch element b and every candidates value in
\* [0, beam_size * vocab_size), the position KenLMScorer.permute_mem reads in
\* the flattened arrays lies in the block of b and inside the arrays: the call
\* does not raise and every slot of b gets an entry of a row of b.
C35_OwnBlock ==
    (phase \in {"crafted", "permuted", "raised"} /\ GatherName = "kenlm") =>
        /\ phase # "raised"
        /\ \A b \in 0 .. (AddrBatch - 1), k \in 0 .. (AddrBeam - 1) :
              /\ index.val[b][k] \in 0 .. (AddrBeam * AddrVocab - 1)
              /\ KenLMHypIndex(fields[1], index, b, k) \in AddrBlock(b)
              /\ KenLMHypIndex(fields[1], index, b, k) < AddrBatch * AddrBeam * AddrVocab
              /\ phase = "permuted" =>
                    GatherOut.state[b * AddrBeam + k][1] \div AddrBeam = b

\* A permute whose candidates name the first entry of the block for the first
\* batch element and the last entry of the block for the last one.
C35_Witness ==
    /\ phase = "permuted"
    /\ GatherName = "kenlm"
    /\ \E k \in 0 .. (AddrBeam - 1) : index.val[0][k] = 0
    /\ \E k \in 0 .. (AddrBeam - 1) :
          /\ index.val[AddrBatch - 1][k] = AddrBeam * AddrVocab - 1
          /\ GatherOut.state[(AddrBatch - 1) * AddrBeam + k]
                = <<AddrBatch * AddrBeam - 1, AddrVocab - 1>>

\* ---------------------------------------------------------------- C36
\* The instance registered at place j of the full scorers followed by the
\* partial scorers.
RegisteredImpl(j) ==
    IF j <= Len(full_scorers) THEN full_scorers[j][2]
    ELSE partial_scorers[j - Len(full_scorers)][2]

ZeroWeightCalls == {j \in DOMAIN calls : calls[j].weight = 0}

\* C36: a registered scorer of weight 0 is called by every
\* ScorerBuilder.score like any other: its score is computed, its new memory
\* is what its score method gives on the arguments of the call (the weight is
\* no argument) and goes into the returned dict, and every permute_scorer_mem
\* re-indexes that memory; the log_probs buffer is the same before and after
\* its term is added.
C36_ZeroWeightStillRuns ==
    /\ phase = "scored" =>
          /\ Len(calls) = Len(RegisteredNames)
          /\ \A j \in DOMAIN calls :
                /\ calls[j].name = RegisteredNames[j]
                /\ calls[j].weight = weights[calls[j].name]
          /\ \A j \in ZeroWeightCalls :
                LET r == Impl_score(RegisteredImpl(j), calls[j].self, calls[j].inp_tokens,
                                    calls[j].memory, calls[j].candidates, calls[j].attn,
                                    Cardinality(DOMAIN hyps))
                IN  /\ calls[j].score = r.score
                    /\ calls[j].new_memory = r.memory
                    /\ memory[calls[j].name] = calls[j].new_memory
                    /\ BufferAfter(j) = calls[j].before
    /\ phase = "permuted" =>
          \A j \in ZeroWeightCalls :
              \E n \in DOMAIN permutes :
                  /\ permutes[n].name = calls[j].name
                  /\ permutes[n].memory = calls[j].new_memory
                  /\ memory[calls[j].name] =
                        Impl_permute_mem(RegisteredImpl(j), fields[RegisteredImpl(j).id],
                                         permutes[n].memory, permutes[n].arg).memory

\* A second step in which the n-gram scorer of weight 0 scored a live row, its
\* memory moved on and was permuted, next to scorers that changed the buffer.
C36_Witness ==
    /\ phase = "permuted" /\ step = 2
    /\ \E j \in ZeroWeightCalls :
          /\ calls[j].name = "kenlm"
          /\ calls[j].memory.kind = "rows"
          /\ \E i \in DOMAIN calls[j].score, t \in Vocab :
                calls[j].score[i][t] \notin {0, minus_inf}
          /\ memory["kenlm"] # calls[j].memory
    /\ log_probs # lp_in

\* ---------------------------------------------------------------- C37
\* reset_scorer_mem on the builder's scorers as their constructors left them.
FreshReset ==
    ScorerBuilder_reset_scorer_mem(full_scorers, partial_scorers,
                                   [i \in InstanceIds |-> NewFields], enc)

\* C37: reset_scorer_mem re-initialises the builder for a new utterance
\* batch: whatever reset/score/permute calls came before, the memory it returns
\* and the attributes of every registered instance are those of instances that
\* were never used, so the scores of the calls that follow are those of a first
\* session (for the coverage scorer: the penalty over the number of its score
\* calls in this session).
C37_ResetReinitialises ==
    /\ phase = "reset" =>
          /\ memory = FreshReset.memory
          /\ \A j \in DOMAIN RegisteredNames :
                fields[RegisteredImpl(j).id] = FreshReset.fields[RegisteredImpl(j).id]
    /\ phase = "scored" =>
          \A j \in CoverageCalls : \A i \in DOMAIN calls[j].score : \A t \in Vocab :
              calls[j].score[i][t] = -(PenaltyOf(j, i) \div CallsSinceReset(j))

\* ---------------------------------------------------------------- C38
\* The files prepare_stm has gone through that the exclude directive kept.
StmProcessed ==
    {stm.stm_paths[n] : n \in
        {l \in 1 .. (stm.i - 1) :
            ~(stm.conf.exclude.kind # "None"
              /\ re_search(stm.conf.exclude.val, stm.stm_paths[l]))}}

\* The entries of split_info one of whose patterns the path matches.
MatchingSplits(f) ==
    {k \in 1 .. Len(stm.split_info) :
        \E n \in 1 .. Len(stm.split_info[k].sp) : re_search(stm.split_info[k].sp[n], f)}

\* The entries of split_info whose list holds a segment of the file.
ListsHolding(f) ==
    {k \in 1 .. Len(stm.split_info) :
        \E n \in 1 .. Len(stm.split_info[k].info) : stm.split_info[k].info[n].file = f.id}

\* C38: prepare_stm assigns every STM file to at most one split: a file whose
\* path matches patterns of several splits has its segments in exactly one
\* split list, that of the last matching split in the order train, dev, test
\* splits, and a file that matches no split has its segments in none.
C38_OneSplitPerFile ==
    stm.pc = "files" =>
        \A f \in StmProcessed :
            /\ Cardinality(ListsHolding(f)) <= 1
            /\ MatchingSplits(f) = {} => ListsHolding(f) = {}
            /\ MatchingSplits(f) # {} =>
                  ListsHolding(f) = {CHOOSE k \in MatchingSplits(f) :
                                        \A l \in MatchingSplits(f) : l <= k}

====
